---- MODULE Spec2Model ----
(***************************************************************************)
(* A model of the ray tracer of mrizaln/ray-tracing-rust                   *)
(* (2_the-next-week): the render drivers RayTracer::render and             *)
(* RayTracer::render_multi (worker threads, mpsc channel, aggregator),     *)
(* the intersection core (Sphere, HittableList, AABB, BvhNode, Interval),  *)
(* the materials and ray_color, and the program around them (parse_args,   *)
(* main, generate_ppm_image, RayTracer::new), the construction of the BVH   *)
(* call by call, the progress reporter and the pixel index in u32.         *)
(***************************************************************************)
EXTENDS Integers, Sequences, FiniteSets, TLC

(***************************************************************************)
(* Bounds of the model.                                                    *)
(***************************************************************************)
MaxWidth == 2

MaxHeight == 3

MaxWorkers == 3

\* images of more pixels than this are left out of Init
MaxPixels == 6

VARIABLES
    dimension,          \* RayTracer.dimension: [width, height]
    concurrency_level,  \* thread::available_parallelism() (W)
    pc,                 \* position of the main thread
    render_row,         \* render: row of the next pixel
    render_col,         \* render: col of the next pixel
    render_pixels,      \* render: the Vec<Color> being pushed to
    single,             \* Option<Image>: what render returned
    spawn_i,            \* render_multi: the i of the next worker to spawn
    workers,            \* render_multi: per worker, its locals and position
    channel,            \* the mpsc channel: messages sent and not yet received
    pixels,             \* render_multi: the aggregator's pixel buffer
    completed_threads,  \* render_multi: sentinels the aggregator has counted
    multi,              \* Option<Image>: what render_multi returned
    sent,               \* history: every message sent, in channel order, with its sender
    written,            \* history: per pixel index, how often the aggregator wrote it
    rows,               \* history: per worker, the rows it rendered, in order
    progress,           \* history: the lines the ProgressTrackerWrappers wrote to stderr
    objects,            \* the Vec<Box<dyn Hittable>> a scene is built from
    ray,                \* the ray of an intersection query
    query_range,        \* the t_range of an intersection query
    sphere_hit,         \* what Sphere::hit returned for the first object
    hit_record,         \* what HitRecord::new built, with the normal it was given
    list_hit,           \* what HittableList::hit returned
    bvh,                \* what BvhNode::new built
    bvh_hit,            \* what BvhNode::hit returned
    aabb,               \* the AABB of a slab test
    aabb_hit,           \* what AABB::hit returned
    int_self,           \* the Interval an operation is called on
    int_other,          \* the Interval passed to combine_new and combine
    int_value,          \* the value passed to contains, surrounds and clamp
    contains_ret,       \* what Interval::contains returned
    surrounds_ret,      \* what Interval::surrounds returned
    clamp_ret,          \* what Interval::clamp returned
    combined,           \* what Interval::combine_new returned
    max_depth,          \* RayTracer.max_depth
    sample_time,        \* get_color: the ray_time drawn for the camera ray
    path_depth,         \* ray_color: depth of the running call
    path_ray,           \* ray_color: ray of the running call
    path_hit,           \* ray_color: what hittable.hit returned to the running call
    path_scatter,       \* ray_color: what scatter returned to the running call
    path_stack,         \* ray_color: the calls waiting for their recursive call
    path_ret,           \* ray_color: what the call that returned last returned
    path_queries,       \* history: the hittable.hit calls of the sample so far
    run_dimension,      \* reruns: RayTracer.dimension, the same in every run
    run_row,            \* reruns: row of the next pixel of the running render
    run_col,            \* reruns: col of the next pixel of the running render
    run_pixels,         \* reruns: the Vec<Color> of the running render
    run_images,         \* reruns: the Images the finished runs returned
    args_field,         \* parse_args: the tracer parameter followed
    args_cli,           \* parse_args: Option, the text given for it on the command line
    args_file,          \* parse_args: Option, the config file's Option of a text for it
    args_matches,       \* parse_args: what matches.get_one returns for it
    args_config,        \* parse_args: what config.get returns for it
    args_param,         \* parse_args: its field of param
    args_exit,          \* parse_args: Option, the status the process exited with
    main_crate,         \* main: the crate of the binary
    main_args,          \* main: std::env::args()
    main_fs,            \* main: what each path is on disk
    main_stdin,         \* main: the byte waiting on stdin
    main_rendered,      \* history: render or render_multi was called
    main_exit,          \* main: Option, how the process ended
    tracer_params,      \* RayTracer::new: the height and aspect_ratio of params
    tracer_dimension,   \* RayTracer::new: Option, the Dimension built
    actual_ratio,       \* RayTracer::new: Option, the actual_ratio computed
    prims,              \* BvhNode::new: the objects it is given
    build_axis,         \* BvhNode::new: the axis util::get_random(0, 3) drew
    split_stack,        \* BvhNode::split: the calls under way, the running one last
    split_ret,          \* BvhNode::split: Option, what the call that returned last returned
    built_node,         \* Option, the BvhNode that BvhNode::new returned
    index_input,        \* render_multi: the dimension, level, worker, count and col of a pixel
    index_row,          \* render_multi: Option, the row computed for it
    index_ret,          \* render_multi: Option, the index computed for it
    scatter_input,      \* Material::scatter: the material, ray, hit record and draws
    scatter_ret         \* Material::scatter: Option, what it returned

\* the state of render and render_multi, pc apart
render_state == <<dimension, concurrency_level, render_row, render_col,
                  render_pixels, single, spawn_i, workers, channel, pixels,
                  completed_threads, multi, sent, written, rows, progress>>

\* the state of the intersection queries
hit_state == <<objects, ray, query_range, sphere_hit, hit_record, list_hit, bvh, bvh_hit>>

\* the state of the slab test
aabb_state == <<aabb, aabb_hit>>

\* the state of the operations checked one at a time
\* the state of the Interval operations
interval_state == <<int_self, int_other, int_value, contains_ret, surrounds_ret,
                    clamp_ret, combined>>

\* the state of one sample's ray_color recursion
path_state == <<max_depth, sample_time, path_depth, path_ray, path_hit,
                path_scatter, path_stack, path_ret, path_queries>>

\* the state of two runs of render
rerun_state == <<run_dimension, run_row, run_col, run_pixels, run_images>>

\* the state of parse_args
args_state == <<args_field, args_cli, args_file, args_matches, args_config,
                args_param, args_exit>>

\* the state of main
main_state == <<main_crate, main_args, main_fs, main_stdin, main_rendered, main_exit>>

\* the state of RayTracer::new
tracer_state == <<tracer_params, tracer_dimension, actual_ratio>>

\* the state of the construction of a BvhNode
build_state == <<prims, build_axis, split_stack, split_ret, built_node>>

\* the state of the index computation of a worker
index_state == <<index_input, index_row, index_ret>>

\* the state of one call of Material::scatter
scatter_state == <<scatter_input, scatter_ret>>

late_state == <<build_state, index_state, scatter_state>>

early_state == <<rerun_state, args_state, main_state, tracer_state>>

\* the state of the program around the tracer
program_state == <<early_state, late_state>>

unit_state == <<aabb_state, interval_state, path_state, program_state>>

\* what the operations of one group leave alone of the other groups
aabb_rest == <<interval_state, path_state, program_state>>

interval_rest == <<aabb_state, path_state, program_state>>

path_rest == <<aabb_state, interval_state, program_state>>

core_state == <<aabb_state, interval_state, path_state>>

rerun_rest == <<core_state, args_state, main_state, tracer_state, late_state>>

args_rest == <<core_state, rerun_state, main_state, tracer_state, late_state>>

main_rest == <<core_state, rerun_state, args_state, tracer_state, late_state>>

tracer_rest == <<core_state, rerun_state, args_state, main_state, late_state>>

build_rest == <<core_state, early_state, index_state, scatter_state>>

index_rest == <<core_state, early_state, build_state, scatter_state>>

scatter_rest == <<core_state, early_state, build_state, index_state>>

vars == <<pc, render_state, hit_state, unit_state>>

(***************************************************************************)
(* Option<T>: None is the empty sequence, Some(x) the one-element one.     *)
(***************************************************************************)
None == <<>>

Some(x) == <<x>>

IsSome(o) == Len(o) = 1

Unwrap(o) == o[1]

\* no slab test is under way
AabbIdle ==
    /\ aabb = <<>>
    /\ aabb_hit = None

\* no Interval operation is under way
IntervalIdle ==
    /\ int_self = <<>>
    /\ int_other = <<>>
    /\ int_value = 0
    /\ contains_ret = None
    /\ surrounds_ret = None
    /\ clamp_ret = None
    /\ combined = None

\* no sample is under way
PathIdle ==
    /\ max_depth = 0
    /\ sample_time = 0
    /\ path_depth = 0
    /\ path_ray = <<>>
    /\ path_hit = None
    /\ path_scatter = None
    /\ path_stack = <<>>
    /\ path_ret = None
    /\ path_queries = 0

\* no run of render is under way
RerunIdle ==
    /\ run_dimension = <<>>
    /\ run_row = 0
    /\ run_col = 0
    /\ run_pixels = <<>>
    /\ run_images = <<>>

\* parse_args is not under way
ArgsIdle ==
    /\ args_field = ""
    /\ args_cli = None
    /\ args_file = None
    /\ args_matches = None
    /\ args_config = None
    /\ args_param = 0
    /\ args_exit = None

\* main is not under way
MainIdle ==
    /\ main_crate = ""
    /\ main_args = <<>>
    /\ main_fs = <<>>
    /\ main_stdin = ""
    /\ main_rendered = FALSE
    /\ main_exit = None

\* RayTracer::new is not under way
TracerIdle ==
    /\ tracer_params = <<>>
    /\ tracer_dimension = None
    /\ actual_ratio = None

\* no BvhNode is under construction
BuildIdle ==
    /\ prims = <<>>
    /\ build_axis = 0
    /\ split_stack = <<>>
    /\ split_ret = None
    /\ built_node = None

\* no index is being computed
IndexIdle ==
    /\ index_input = <<>>
    /\ index_row = None
    /\ index_ret = None

\* no call of Material::scatter is under way
ScatterIdle ==
    /\ scatter_input = <<>>
    /\ scatter_ret = None

LateIdle ==
    /\ BuildIdle
    /\ IndexIdle
    /\ ScatterIdle

EarlyIdle ==
    /\ RerunIdle
    /\ ArgsIdle
    /\ MainIdle
    /\ TracerIdle

ProgramIdle ==
    /\ EarlyIdle
    /\ LateIdle

CoreIdle ==
    /\ AabbIdle
    /\ IntervalIdle
    /\ PathIdle

UnitIdle ==
    /\ CoreIdle
    /\ ProgramIdle

AabbRestIdle ==
    /\ IntervalIdle
    /\ PathIdle
    /\ ProgramIdle

IntervalRestIdle ==
    /\ AabbIdle
    /\ PathIdle
    /\ ProgramIdle

PathRestIdle ==
    /\ AabbIdle
    /\ IntervalIdle
    /\ ProgramIdle

RerunRestIdle ==
    /\ CoreIdle
    /\ ArgsIdle
    /\ MainIdle
    /\ TracerIdle
    /\ LateIdle

ArgsRestIdle ==
    /\ CoreIdle
    /\ RerunIdle
    /\ MainIdle
    /\ TracerIdle
    /\ LateIdle

MainRestIdle ==
    /\ CoreIdle
    /\ RerunIdle
    /\ ArgsIdle
    /\ TracerIdle
    /\ LateIdle

TracerRestIdle ==
    /\ CoreIdle
    /\ RerunIdle
    /\ ArgsIdle
    /\ MainIdle
    /\ LateIdle

BuildRestIdle ==
    /\ CoreIdle
    /\ EarlyIdle
    /\ IndexIdle
    /\ ScatterIdle

IndexRestIdle ==
    /\ CoreIdle
    /\ EarlyIdle
    /\ BuildIdle
    /\ ScatterIdle

ScatterRestIdle ==
    /\ CoreIdle
    /\ EarlyIdle
    /\ BuildIdle
    /\ IndexIdle

(***************************************************************************)
(* f64 values.  The finite values of the model are integers; +inf, -inf    *)
(* and NaN are kept apart from them, with the IEEE 754 rules for the       *)
(* comparisons (false on NaN) and for the arithmetic the code performs.    *)
(* The sign of a zero is dropped: AABB::hit and Sphere::hit give the same  *)
(* result for +0.0 and -0.0.                                               *)
(***************************************************************************)
PosInf == 99

NegInf == -PosInf

NaN == PosInf + 1

IsFinite(x) == NegInf < x /\ x < PosInf

FLt(a, b) == a # NaN /\ b # NaN /\ a < b

FGt(a, b) == FLt(b, a)

FLe(a, b) == a # NaN /\ b # NaN /\ a <= b

FGe(a, b) == FLe(b, a)

FNeg(a) == IF a = NaN THEN NaN ELSE -a

FAdd(a, b) ==
    IF a = NaN \/ b = NaN THEN NaN
    ELSE IF ~IsFinite(a) THEN (IF b = -a THEN NaN ELSE a)
    ELSE IF ~IsFinite(b) THEN b
    ELSE a + b

FSub(a, b) == FAdd(a, FNeg(b))

Sign(a) == IF a > 0 THEN 1 ELSE IF a < 0 THEN -1 ELSE 0

FMul(a, b) ==
    IF a = NaN \/ b = NaN THEN NaN
    ELSE IF ~IsFinite(a) \/ ~IsFinite(b)
           THEN (IF a = 0 \/ b = 0 THEN NaN ELSE Sign(a) * Sign(b) * PosInf)
    ELSE a * b

\* the finite quotients of the model are exact
FDiv(a, b) ==
    IF a = NaN \/ b = NaN THEN NaN
    ELSE IF b = 0 THEN (IF a = 0 THEN NaN ELSE Sign(a) * PosInf)
    ELSE IF ~IsFinite(a) THEN (IF ~IsFinite(b) THEN NaN ELSE Sign(a) * Sign(b) * PosInf)
    ELSE IF ~IsFinite(b) THEN 0
    ELSE Sign(a) * Sign(b) *
           (CHOOSE q \in 0..(Sign(a) * a) : q * (Sign(b) * b) = Sign(a) * a)

\* the finite square roots of the model are exact
FSqrt(a) ==
    IF a = NaN \/ a < 0 THEN NaN
    ELSE IF a = PosInf THEN PosInf
    ELSE CHOOSE r \in 0..a : r * r = a

(***************************************************************************)
(* Vector<f64, 3> (vec.rs): a triple, its axes 0, 1, 2 at 1, 2, 3.         *)
(***************************************************************************)
Axes == {0, 1, 2}

VecAt(v, axis) == v[axis + 1]

VAdd(u, v) == [k \in 1..3 |-> FAdd(u[k], v[k])]

VSub(u, v) == [k \in 1..3 |-> FSub(u[k], v[k])]

VNeg(v) == [k \in 1..3 |-> FNeg(v[k])]

VMulS(v, x) == [k \in 1..3 |-> FMul(v[k], x)]

VDivS(v, x) == [k \in 1..3 |-> FDiv(v[k], x)]

Dot(u, v) == FAdd(FAdd(FMul(u[1], v[1]), FMul(u[2], v[2])), FMul(u[3], v[3]))

LengthSquared(v) == Dot(v, v)

\* a ray's time is kept in halves: 0 is time 0.0 and 1 is time 0.5
VMulTime(v, time) == [k \in 1..3 |-> FDiv(FMul(v[k], time), 2)]

\* Ray::default()
RayDefault == [origin |-> <<0, 0, 0>>, direction |-> <<0, 0, 0>>, time |-> 0]

\* Ray::at
RayAt(r, t) == VAdd(r.origin, VMulS(r.direction, t))

(***************************************************************************)
(* Interval (interval.rs)                                                  *)
(***************************************************************************)
IntervalNew(min, max) == [min |-> min, max |-> max]

IntervalEmpty == IntervalNew(PosInf, NegInf)

IntervalCombine(a, b) ==
    IntervalNew(IF FLt(a.min, b.min) THEN a.min ELSE b.min,
                IF FGt(a.max, b.max) THEN a.max ELSE b.max)

\* a variant of combine_new that always takes the other's max
IntervalCombineNewOtherMax(a, b) ==
    IntervalNew(IF FLt(a.min, b.min) THEN a.min ELSE b.min, b.max)

IntervalCombineNew(a, b) ==
    IntervalNew(IF FLt(a.min, b.min) THEN a.min ELSE b.min,
                IF FGt(a.max, b.max) THEN a.max ELSE b.max)

IntervalContains(iv, value) == FLe(iv.min, value) /\ FLe(value, iv.max)

\* a variant of surrounds that takes the bounds in
IntervalSurroundsClosed(iv, value) == FLe(iv.min, value) /\ FLe(value, iv.max)

\* a variant of clamp that leaves out the upper bound
IntervalClampBelow(iv, value) == IF FLt(value, iv.min) THEN iv.min ELSE value

IntervalClamp(iv, value) ==
    IF FLt(value, iv.min) THEN iv.min
    ELSE IF FGt(value, iv.max) THEN iv.max
    ELSE value

IntervalSurrounds(iv, value) == FLt(iv.min, value) /\ FLt(value, iv.max)

(***************************************************************************)
(* AABB<f64, 3> (aabb.rs): three intervals                                 *)
(***************************************************************************)
AABBEmpty == [k \in 1..3 |-> IntervalEmpty]

AABBCombineNew(a, b) == [k \in 1..3 |-> IntervalCombine(a[k], b[k])]

AxisInterval(bbox, axis) == bbox[axis + 1]

\* one turn of the loop of AABB::hit: the interval cut to the slab of axis ax
SlabCut(bbox, r, interval, ax) ==
    LET int == AxisInterval(bbox, ax)
        t0 == FDiv(FSub(int.min, VecAt(r.origin, ax)), VecAt(r.direction, ax))
        t1 == FDiv(FSub(int.max, VecAt(r.origin, ax)), VecAt(r.direction, ax))
    IN  IF FLt(t0, t1)
          THEN IntervalNew(IF FGt(t0, interval.min) THEN t0 ELSE interval.min,
                           IF FLt(t1, interval.max) THEN t1 ELSE interval.max)
          ELSE IntervalNew(IF FGt(t1, interval.min) THEN t1 ELSE interval.min,
                           IF FLt(t0, interval.max) THEN t0 ELSE interval.max)

\* a variant of the loop that lets an interval of one point through
RECURSIVE AABBHitFromStrict(_, _, _, _)
AABBHitFromStrict(bbox, r, interval, ax) ==
    IF ax >= 3 THEN TRUE
    ELSE LET cut == SlabCut(bbox, r, interval, ax)
         IN  IF FGt(cut.min, cut.max) THEN FALSE
             ELSE AABBHitFromStrict(bbox, r, cut, ax + 1)

RECURSIVE AABBHitFrom(_, _, _, _)
AABBHitFrom(bbox, r, interval, ax) ==
    IF ax >= 3 THEN TRUE
    ELSE LET cut == SlabCut(bbox, r, interval, ax)
         IN  IF FGe(cut.min, cut.max) THEN FALSE
             ELSE AABBHitFrom(bbox, r, cut, ax + 1)

AABBHit(bbox, r, interval) == AABBHitFrom(bbox, r, interval, 0)

(***************************************************************************)
(* HitRecord and Sphere (hittable.rs)                                      *)
(***************************************************************************)
Vec2Default == <<0, 0>>

\* a variant that keeps the outward normal whatever side the ray comes from
HitRecordNewNoFlip(r, out_normal, point, tex_hit, t_value) ==
    [point |-> point, normal |-> out_normal, tex |-> tex_hit,
     t_value |-> t_value, front_face |-> FLt(Dot(r.direction, out_normal), 0)]

HitRecordNew(r, out_normal, point, tex_hit, t_value) ==
    LET front_face == FLt(Dot(r.direction, out_normal), 0)
        normal == IF front_face THEN out_normal ELSE VNeg(out_normal)
    IN  [point |-> point, normal |-> normal, tex |-> tex_hit,
         t_value |-> t_value, front_face |-> front_face]

SphereBox(center, radius) ==
    [k \in 1..3 |-> IntervalNew(FSub(center[k], radius), FAdd(center[k], radius))]

SphereNew(center, radius, material) ==
    [kind |-> "Sphere", center |-> center, radius |-> radius,
     material |-> material, bbox |-> SphereBox(center, radius),
     is_moving |-> FALSE, center_vec |-> <<0, 0, 0>>]

SphereNewMoving(center1, center2, radius, material) ==
    [kind |-> "Sphere", center |-> center1, radius |-> radius,
     material |-> material,
     bbox |-> AABBCombineNew(SphereBox(center1, radius), SphereBox(center2, radius)),
     is_moving |-> TRUE, center_vec |-> VSub(center2, center1)]

SphereCenter(s, time) == VAdd(s.center, VMulTime(s.center_vec, time))

\* the center Sphere::hit intersects with
HitCenter(s, r) == IF s.is_moving THEN SphereCenter(s, r.time) ELSE s.center

\* d = b_half * b_half - a * c
Discriminant(s, r) ==
    LET oc == VSub(r.origin, HitCenter(s, r))
        a == LengthSquared(r.direction)
        b_half == Dot(oc, r.direction)
        c == FSub(LengthSquared(oc), FMul(s.radius, s.radius))
    IN  FSub(FMul(b_half, b_half), FMul(a, c))

\* <<root1, root2>>, for d >= 0
Roots(s, r) ==
    LET oc == VSub(r.origin, HitCenter(s, r))
        a == LengthSquared(r.direction)
        b_half == Dot(oc, r.direction)
        d_sqrt == FSqrt(Discriminant(s, r))
    IN  <<FDiv(FSub(FNeg(b_half), d_sqrt), a), FDiv(FAdd(FNeg(b_half), d_sqrt), a)>>

\* the match on (t_range.surrounds(root1), t_range.surrounds(root2))
SelectRoot(t_range, root1, root2) ==
    IF IntervalSurrounds(t_range, root1) THEN Some(root1)
    ELSE IF IntervalSurrounds(t_range, root2) THEN Some(root2)
    ELSE None

\* let out_normal = (point - self.center) / self.radius
OutNormal(s, point) == VDivS(VSub(point, s.center), s.radius)

SphereHit(s, r, t_range) ==
    IF FLt(Discriminant(s, r), 0) THEN None
    ELSE LET roots == Roots(s, r)
             root == SelectRoot(t_range, roots[1], roots[2])
         IN  IF root = None THEN None
             ELSE LET point == RayAt(r, Unwrap(root))
                  IN  Some([record |-> HitRecordNew(r, OutNormal(s, point), point,
                                                   Vec2Default, Unwrap(root)),
                            material |-> s.material])

(***************************************************************************)
(* BvhNode (bvh.rs) and the dispatch of Hittable::hit                      *)
(***************************************************************************)
BoundingBox(h) == h.bbox

BoxOf(child) == IF IsSome(child) THEN BoundingBox(Unwrap(child)) ELSE AABBEmpty

\* the key of the sort: a.bounding_box().axis_interval(axis).min
SortKey(h, axis) == AxisInterval(BoundingBox(h), axis).min

\* x put into the sorted seq behind every element that is not greater
InsertSorted(seq, x, axis) ==
    LET n == Cardinality({k \in DOMAIN seq : SortKey(seq[k], axis) <= SortKey(x, axis)})
    IN  SubSeq(seq, 1, n) \o <<x>> \o SubSeq(seq, n + 1, Len(seq))

\* objects.sort_by(..): a stable sort
RECURSIVE SortBy(_, _)
SortBy(objs, axis) ==
    IF Len(objs) = 0 THEN <<>>
    ELSE InsertSorted(SortBy(SubSeq(objs, 1, Len(objs) - 1), axis), objs[Len(objs)], axis)

BvhNode(left, right) ==
    [kind |-> "BvhNode", left |-> left, right |-> right,
     bbox |-> AABBCombineNew(BoxOf(left), BoxOf(right))]

\* split never returns for an empty list: neither base case applies and the
\* left half of an empty list is empty again
SplitDiverges(objs) == Len(objs) = 0

\* <<left, right>>, for a list that is not empty
RECURSIVE BvhNodeSplit(_)
BvhNodeSplit(objs) ==
    IF Len(objs) = 1 THEN <<Some(objs[1]), None>>
    ELSE IF Len(objs) = 2 THEN <<Some(objs[2]), Some(objs[1])>>
    ELSE LET mid == Len(objs) \div 2
             left_objects == BvhNodeSplit(SubSeq(objs, 1, mid))
             right_objects == BvhNodeSplit(SubSeq(objs, mid + 1, Len(objs)))
         IN  <<Some(BvhNode(left_objects[1], left_objects[2])),
               Some(BvhNode(right_objects[1], right_objects[2]))>>

\* BvhNode::new, with the axis util::get_random(0, 3) drew
BvhNodeNew(objs, axis) ==
    LET halves == BvhNodeSplit(SortBy(objs, axis))
    IN  BvhNode(halves[1], halves[2])

HitT(hit) == Unwrap(hit).record.t_value

\* the match on (left_hit, right_hit)
NearerHit(left_hit, right_hit) ==
    IF ~IsSome(left_hit) THEN right_hit
    ELSE IF ~IsSome(right_hit) THEN left_hit
    ELSE IF FLt(HitT(left_hit), HitT(right_hit)) THEN left_hit
    ELSE right_hit

RECURSIVE Hit(_, _, _)
Hit(h, r, t_range) ==
    IF h.kind = "Sphere" THEN SphereHit(h, r, t_range)
    ELSE \* BvhNode::hit
         IF ~AABBHit(h.bbox, r, t_range) THEN None
         ELSE LET left_hit == IF IsSome(h.left) THEN Hit(Unwrap(h.left), r, t_range)
                              ELSE None
                  t_max == IF IsSome(left_hit) THEN HitT(left_hit) ELSE t_range.max
                  new_t_range == IntervalNew(t_range.min, t_max)
                  right_hit == IF IsSome(h.right) THEN Hit(Unwrap(h.right), r, new_t_range)
                               ELSE None
              IN  NearerHit(left_hit, right_hit)

BvhNodeHit(node, r, t_range) == Hit(node, r, t_range)

(***************************************************************************)
(* HittableList (hittable.rs)                                              *)
(***************************************************************************)
HittableListNew == [kind |-> "HittableList", objects |-> <<>>, bbox |-> AABBEmpty]

HittableListAdd(list, object) ==
    [list EXCEPT !.bbox = AABBCombineNew(@, BoundingBox(object)),
                 !.objects = Append(@, object)]

RECURSIVE HittableListOf(_)
HittableListOf(objs) ==
    IF Len(objs) = 0 THEN HittableListNew
    ELSE HittableListAdd(HittableListOf(SubSeq(objs, 1, Len(objs) - 1)), objs[Len(objs)])

\* a variant that offers every member the whole t_range
ListRangeWhole(t_range, t_closest) == t_range

\* (t_range.min, t_closest).into()
ListRange(t_range, t_closest) == IntervalNew(t_range.min, t_closest)

\* the loop of HittableList::hit from member k on
RECURSIVE HittableListHitFrom(_, _, _, _, _, _)
HittableListHitFrom(objs, r, t_range, k, current_hit, t_closest) ==
    IF k > Len(objs) THEN current_hit
    ELSE LET hit == Hit(objs[k], r, ListRange(t_range, t_closest))
         IN  IF IsSome(hit)
               THEN HittableListHitFrom(objs, r, t_range, k + 1, hit, HitT(hit))
               ELSE HittableListHitFrom(objs, r, t_range, k + 1, current_hit, t_closest)

HittableListHit(list, r, t_range) ==
    HittableListHitFrom(list.objects, r, t_range, 1, None, t_range.max)

(***************************************************************************)
(* Colors.  sample_color_at(col, row, scene).clamp(0, 1) is taken as a     *)
(* function of (col, row) alone; the triple keeps the pixel's position so  *)
(* that a color stored in the wrong slot is visible.                       *)
(***************************************************************************)
Black == <<0, 0, 0>>

SampleColorAt(col, row) == <<1, col, row>>

\* Vec<T>[i], i counted from 0
VecGet(v, i) == v[i + 1]

VecSet(v, i, x) == [v EXCEPT ![i + 1] = x]

Replicate(x, n) == [k \in 1..n |-> x]

(***************************************************************************)
(* ProgressTrackerWrapper (ray_tracer.rs): a line goes to stderr when the  *)
(* count is a multiple of the interval or the maximum.                     *)
(***************************************************************************)
MINIMUM_UPDATE_INTERVAL == 512

\* ProgressTrackerWrapper::new(width, steps): max_count
TrackerMax(width, steps) == steps * width

\* a variant that emits at the multiples of the interval only
TrackerUpdateAtMultiples(lines, of, width, max, count, width_step) ==
    LET new_count == count * width + width_step
    IN  IF new_count % MINIMUM_UPDATE_INTERVAL = 0
          THEN Append(lines, [of |-> of, count |-> new_count, max |-> max,
                              newline |-> new_count = max])
          ELSE lines

\* ProgressTrackerWrapper::update(count, width_step) of the tracker of `of`
\* (render, or the worker of render_multi that has one): stderr after the call
TrackerUpdate(lines, of, width, max, count, width_step) ==
    LET new_count == count * width + width_step
        should_update == new_count % MINIMUM_UPDATE_INTERVAL = 0
        reached_max == new_count = max
    IN  IF should_update \/ reached_max
          THEN Append(lines, [of |-> of, count |-> new_count, max |-> max,
                              newline |-> reached_max])
          ELSE lines

(***************************************************************************)
(* RayTracer::render: rows outer, columns inner, one push per pixel.       *)
(***************************************************************************)
RenderPush ==
    /\ pc = "render"
    /\ render_row < dimension.height
    /\ render_col < dimension.width
    /\ render_pixels' = Append(render_pixels, SampleColorAt(render_col, render_row))
    /\ progress' = TrackerUpdate(progress, "render", dimension.width,
                                 TrackerMax(dimension.width, dimension.height),
                                 render_row, render_col + 1)
    /\ IF render_col + 1 < dimension.width
         THEN /\ render_col' = render_col + 1
              /\ render_row' = render_row
         ELSE /\ render_col' = 0
              /\ render_row' = render_row + 1
    /\ UNCHANGED <<hit_state, unit_state>>
    /\ UNCHANGED <<dimension, concurrency_level, pc, single, spawn_i, workers,
                   channel, pixels, completed_threads, multi, sent, written, rows>>

RenderReturn ==
    /\ pc = "render"
    /\ \/ render_row >= dimension.height
       \/ dimension.width = 0
    /\ single' = Some([pixels |-> render_pixels, dimension |-> dimension])
    /\ pc' = "spawn"
    /\ UNCHANGED progress
    /\ UNCHANGED <<hit_state, unit_state>>
    /\ UNCHANGED <<dimension, concurrency_level, render_row, render_col,
                   render_pixels, spawn_i, workers, channel, pixels,
                   completed_threads, multi, sent, written, rows>>

(***************************************************************************)
(* RayTracer::render_multi.                                                *)
(***************************************************************************)
ChunkSize(height, level) == height \div level

\* a variant that forgets the rows left over when level does not divide height
NumStepsNoRemainder(height, level, i) == ChunkSize(height, level)

\* the match on chunk_size * concurrency_level + i
NumSteps(height, level, i) ==
    IF ChunkSize(height, level) * level + i < height
      THEN ChunkSize(height, level) + 1
      ELSE ChunkSize(height, level)

\* a variant that gives worker i a block of rows instead of every level-th row
WorkerRowBlocked(count, level, i) == i * level + count

\* let row = (count * concurrency_level + i) as u32
WorkerRowOf(count, level, i) == count * level + i

\* a variant that lays the pixels out column by column
PixelIndexTransposed(row, width, col) == col * width + row

\* let index = (row * self.dimension.width + col) as usize
PixelIndex(row, width, col) == row * width + col

\* tx.send(..): the channel is unbounded and first-in first-out
ChannelSend(ch, msg) == Append(ch, msg)

ColorMsg(index, color) == <<"Color", index, color>>

NoneMsg == <<"None">>

\* for i in 0..concurrency_level: compute num_steps, clone tx, spawn
Spawn ==
    /\ pc = "spawn"
    /\ spawn_i < concurrency_level
    /\ workers' = [workers EXCEPT ![spawn_i] =
                     [pc |-> "row",
                      num_steps |-> NumSteps(dimension.height, concurrency_level, spawn_i),
                      count |-> 0, row |-> 0, col |-> 0]]
    /\ spawn_i' = spawn_i + 1
    /\ UNCHANGED progress
    /\ UNCHANGED <<hit_state, unit_state>>
    /\ UNCHANGED <<dimension, concurrency_level, pc, render_row, render_col,
                   render_pixels, single, channel, pixels, completed_threads,
                   multi, sent, written, rows>>

\* worker i, top of `for count in 0..num_steps`: the next row
WorkerRow(i) ==
    /\ workers[i].pc = "row"
    /\ workers[i].count < workers[i].num_steps
    /\ LET row == WorkerRowOf(workers[i].count, concurrency_level, i)
       IN  /\ workers' = [workers EXCEPT ![i].row = row, ![i].col = 0, ![i].pc = "col"]
           /\ rows' = [rows EXCEPT ![i] = Append(@, row)]
    /\ UNCHANGED progress
    /\ UNCHANGED <<hit_state, unit_state>>
    /\ UNCHANGED <<dimension, concurrency_level, pc, render_row, render_col,
                   render_pixels, single, spawn_i, channel, pixels,
                   completed_threads, multi, sent, written>>

\* worker i, body of `for col in 0..width`: sample and send one pixel
WorkerSend(i) ==
    /\ workers[i].pc = "col"
    /\ workers[i].col < dimension.width
    /\ LET w == workers[i]
           index == PixelIndex(w.row, dimension.width, w.col)
           msg == ColorMsg(index, SampleColorAt(w.col, w.row))
       IN  /\ channel' = ChannelSend(channel, msg)
           /\ sent' = Append(sent, [from |-> i, msg |-> msg])
           /\ progress' = IF i = 0
                            THEN TrackerUpdate(progress, "render_multi", dimension.width,
                                               TrackerMax(dimension.width, w.num_steps),
                                               w.count, w.col + 1)
                            ELSE progress
    /\ workers' = [workers EXCEPT ![i].col = @ + 1]
    /\ UNCHANGED <<hit_state, unit_state>>
    /\ UNCHANGED <<dimension, concurrency_level, pc, render_row, render_col,
                   render_pixels, single, spawn_i, pixels, completed_threads,
                   multi, written, rows>>

\* worker i, end of `for col in 0..width`: on to the next count
WorkerRowEnd(i) ==
    /\ workers[i].pc = "col"
    /\ workers[i].col >= dimension.width
    /\ workers' = [workers EXCEPT ![i].count = @ + 1, ![i].pc = "row"]
    /\ UNCHANGED progress
    /\ UNCHANGED <<hit_state, unit_state>>
    /\ UNCHANGED <<dimension, concurrency_level, pc, render_row, render_col,
                   render_pixels, single, spawn_i, channel, pixels,
                   completed_threads, multi, sent, written, rows>>

\* worker i, after the loops: tx.send(SampleResult::None), and the thread ends
WorkerSentinel(i) ==
    /\ workers[i].pc = "row"
    /\ workers[i].count >= workers[i].num_steps
    /\ channel' = ChannelSend(channel, NoneMsg)
    /\ sent' = Append(sent, [from |-> i, msg |-> NoneMsg])
    /\ workers' = [workers EXCEPT ![i].pc = "done"]
    /\ UNCHANGED progress
    /\ UNCHANGED <<hit_state, unit_state>>
    /\ UNCHANGED <<dimension, concurrency_level, pc, render_row, render_col,
                   render_pixels, single, spawn_i, pixels, completed_threads,
                   multi, written, rows>>

\* a variant of the scope that ends with the first thread to end
ScopeEndsAtFirst(ws) == \E i \in DOMAIN ws : ws[i].pc = "done"

\* thread::scope(|s| ..) returns when every thread spawned in it has ended
ScopeEnds(ws) == \A i \in DOMAIN ws : ws[i].pc = "done"

\* thread::scope returns once every spawned thread has ended; then the
\* buffer of width * height black pixels is made and the counter zeroed
Join ==
    /\ pc = "spawn"
    /\ spawn_i >= concurrency_level
    /\ ScopeEnds(workers)
    /\ LET pixel_num == dimension.width * dimension.height
       IN  /\ pixels' = Replicate(Black, pixel_num)
           /\ written' = [k \in 0..(pixel_num - 1) |-> 0]
    /\ completed_threads' = 0
    /\ pc' = "recv"
    /\ UNCHANGED progress
    /\ UNCHANGED <<hit_state, unit_state>>
    /\ UNCHANGED <<dimension, concurrency_level, render_row, render_col,
                   render_pixels, single, spawn_i, workers, channel, multi,
                   sent, rows>>

\* a variant that leaves the loop at the first sentinel
LoopUntilFirstSentinel(completed, level) == completed < 1

\* a variant that waits for one sentinel more than there are workers
LoopOneTooMany(completed, level) == completed <= level

\* while completed_threads < concurrency_level
LoopContinues(completed, level) == completed < level

\* one turn of the aggregator loop: rx.recv() blocks while the channel is empty
Recv ==
    /\ pc = "recv"
    /\ LoopContinues(completed_threads, concurrency_level)
    /\ channel # <<>>
    /\ LET msg == Head(channel)
       IN  IF msg[1] = "Color"
             THEN IF msg[2] \in DOMAIN written
                    THEN /\ pixels' = VecSet(pixels, msg[2], msg[3])
                         /\ written' = [written EXCEPT ![msg[2]] = @ + 1]
                         /\ UNCHANGED <<pc, completed_threads>>
                    ELSE \* pixels[index] out of bounds panics
                         /\ pc' = "panic"
                         /\ UNCHANGED <<pixels, written, completed_threads>>
             ELSE /\ completed_threads' = completed_threads + 1
                  /\ UNCHANGED <<pc, pixels, written>>
    /\ channel' = Tail(channel)
    /\ UNCHANGED progress
    /\ UNCHANGED <<hit_state, unit_state>>
    /\ UNCHANGED <<dimension, concurrency_level, render_row, render_col,
                   render_pixels, single, spawn_i, workers, multi, sent, rows>>

\* the loop's condition fails: build and return the Image
Return ==
    /\ pc = "recv"
    /\ ~LoopContinues(completed_threads, concurrency_level)
    /\ multi' = Some([pixels |-> pixels, dimension |-> dimension])
    /\ pc' = "done"
    /\ UNCHANGED progress
    /\ UNCHANGED <<hit_state, unit_state>>
    /\ UNCHANGED <<dimension, concurrency_level, render_row, render_col,
                   render_pixels, single, spawn_i, workers, channel, pixels,
                   completed_threads, sent, written, rows>>

Unspawned == [pc |-> "unspawned", num_steps |-> 0, count |-> 0, row |-> 0, col |-> 0]

Init ==
    /\ dimension \in {d \in [width : 0..MaxWidth, height : 0..MaxHeight] :
                        d.width * d.height <= MaxPixels}
    /\ concurrency_level \in 1..MaxWorkers
    /\ pc = "render"
    /\ render_row = 0
    /\ render_col = 0
    /\ render_pixels = <<>>
    /\ single = None
    /\ spawn_i = 0
    /\ workers = [i \in 0..(concurrency_level - 1) |-> Unspawned]
    /\ channel = <<>>
    /\ pixels = <<>>
    /\ completed_threads = 0
    /\ multi = None
    /\ sent = <<>>
    /\ written = <<>>
    /\ rows = [i \in 0..(concurrency_level - 1) |-> <<>>]
    /\ progress = <<>>
    /\ objects = <<>>
    /\ ray = RayDefault
    /\ query_range = IntervalEmpty
    /\ sphere_hit = None
    /\ hit_record = None
    /\ list_hit = None
    /\ bvh = None
    /\ bvh_hit = None
    /\ UnitIdle

Worker(i) == WorkerRow(i) \/ WorkerSend(i) \/ WorkerRowEnd(i) \/ WorkerSentinel(i)

Next ==
    \/ RenderPush
    \/ RenderReturn
    \/ Spawn
    \/ \E i \in DOMAIN workers : WorkerRow(i)
    \/ \E i \in DOMAIN workers : WorkerSend(i)
    \/ \E i \in DOMAIN workers : WorkerRowEnd(i)
    \/ \E i \in DOMAIN workers : WorkerSentinel(i)
    \/ Join
    \/ Recv
    \/ Return

Spec == Init /\ [][Next]_vars

(***************************************************************************)
(* Intersection queries: Sphere::hit, HitRecord::new, HittableList::hit,   *)
(* BvhNode::new and BvhNode::hit applied to a list of spheres, a ray and a *)
(* t_range.                                                                *)
(***************************************************************************)
MaxObjects == 2

Centers == {<<0, 0, 0>>, <<2, 0, 0>>}

Radii == {1, -1}

\* the displacement of a moving sphere over the time 0.0 to 1.0
Motion == <<0, 2, 0>>

Lambertian == Some("Lambertian")

Spheres ==
    {SphereNew(c, radius, Lambertian) : c \in Centers, radius \in Radii}
    \cup {SphereNewMoving(c, VAdd(c, Motion), radius, Lambertian) :
            c \in Centers, radius \in Radii}

\* times 0.0 and 0.5, in halves
Times == {0, 1}

Rays ==
    {[origin |-> o, direction |-> <<0, 0, 1>>, time |-> time] :
        o \in {<<0, 0, -3>>, <<1, 0, -3>>, <<0, 1, -3>>, <<1, 1, -3>>, <<0, 0, 0>>},
        time \in Times}
    \cup {[origin |-> o, direction |-> <<1, 0, 0>>, time |-> time] :
        o \in {<<-3, 0, 0>>, <<-3, 1, 0>>}, time \in Times}

TRanges == {IntervalNew(min, max) : min \in {0, 2}, max \in {4, PosInf}}

OutNormals == {<<0, 0, 1>>, <<0, 0, -1>>, <<0, 1, 0>>, <<1, -1, 1>>}

ObjectLists == UNION {[1..n -> Spheres] : n \in 0..MaxObjects}

HitInit ==
    /\ pc = "hit"
    /\ dimension = [width |-> 0, height |-> 0]
    /\ concurrency_level = 1
    /\ render_row = 0
    /\ render_col = 0
    /\ render_pixels = <<>>
    /\ single = None
    /\ spawn_i = 0
    /\ workers = [i \in {0} |-> Unspawned]
    /\ channel = <<>>
    /\ pixels = <<>>
    /\ completed_threads = 0
    /\ multi = None
    /\ sent = <<>>
    /\ written = <<>>
    /\ rows = [i \in {0} |-> <<>>]
    /\ progress = <<>>
    /\ objects \in ObjectLists
    /\ ray \in Rays
    /\ query_range \in TRanges
    /\ sphere_hit = None
    /\ hit_record = None
    /\ list_hit = None
    /\ bvh = None
    /\ bvh_hit = None
    /\ UnitIdle

\* Sphere::hit on the first object
SphereHitStep ==
    /\ pc = "hit"
    /\ objects # <<>>
    /\ sphere_hit' = Some(SphereHit(objects[1], ray, query_range))
    /\ pc' = "hit_done"
    /\ UNCHANGED <<render_state, unit_state>>
    /\ UNCHANGED <<objects, ray, query_range, hit_record, list_hit, bvh, bvh_hit>>

\* HitRecord::new for the ray, some outward normal and the point at t_range.min
HitRecordNewStep ==
    /\ pc = "hit"
    /\ \E out_normal \in OutNormals :
         hit_record' = Some([out_normal |-> out_normal,
                             record |-> HitRecordNew(ray, out_normal,
                                                     RayAt(ray, query_range.min),
                                                     Vec2Default, query_range.min)])
    /\ pc' = "hit_done"
    /\ UNCHANGED <<render_state, unit_state>>
    /\ UNCHANGED <<objects, ray, query_range, sphere_hit, list_hit, bvh, bvh_hit>>

\* HittableList::hit on the list the objects were added to
HittableListHitStep ==
    /\ pc = "hit"
    /\ list_hit' = Some(HittableListHit(HittableListOf(objects), ray, query_range))
    /\ pc' = "bvh_new"
    /\ UNCHANGED <<render_state, unit_state>>
    /\ UNCHANGED <<objects, ray, query_range, sphere_hit, hit_record, bvh, bvh_hit>>

\* BvhNode::new(objects)
BvhNodeNewStep ==
    /\ pc = "bvh_new"
    /\ IF SplitDiverges(objects)
         THEN /\ pc' = "stack_overflow"
              /\ bvh' = bvh
         ELSE /\ pc' = "bvh_hit"
              /\ \E axis \in Axes : bvh' = Some(BvhNodeNew(objects, axis))
    /\ UNCHANGED <<render_state, unit_state>>
    /\ UNCHANGED <<objects, ray, query_range, sphere_hit, hit_record, list_hit, bvh_hit>>

\* BvhNode::hit on the tree built
BvhNodeHitStep ==
    /\ pc = "bvh_hit"
    /\ bvh_hit' = Some(BvhNodeHit(Unwrap(bvh), ray, query_range))
    /\ pc' = "hit_done"
    /\ UNCHANGED <<render_state, unit_state>>
    /\ UNCHANGED <<objects, ray, query_range, sphere_hit, hit_record, list_hit, bvh>>

HitNext ==
    \/ SphereHitStep
    \/ HitRecordNewStep
    \/ HittableListHitStep
    \/ BvhNodeNewStep
    \/ BvhNodeHitStep

HitSpec == HitInit /\ [][HitNext]_vars

(***************************************************************************)
(* Properties of the intersection queries.                                 *)
(***************************************************************************)
\* the members of the list that hit inside the query's t_range
MemberHits ==
    {k \in DOMAIN objects : IsSome(Hit(objects[k], ray, query_range))}

MemberT(k) == HitT(Hit(objects[k], ray, query_range))

Orders(n) ==
    {f \in [1..n -> 1..n] : \A i, j \in 1..n : f[i] = f[j] => i = j}

Reordered(f) == [k \in DOMAIN objects |-> objects[f[k]]]

\* C6: HittableList::hit misses iff no member hits inside t_range, and
\* otherwise returns a hit whose t is the minimum of the members' hit t's;
\* the t is the same for every order in which the members were added.
HittableListMinimum ==
    IsSome(list_hit) =>
        LET result == Unwrap(list_hit)
        IN  /\ ~IsSome(result) <=> MemberHits = {}
            /\ IsSome(result) =>
                 /\ \E k \in MemberHits : HitT(result) = MemberT(k)
                 /\ \A k \in MemberHits : HitT(result) <= MemberT(k)
            /\ \A f \in Orders(Len(objects)) :
                 LET other == HittableListHit(HittableListOf(Reordered(f)),
                                              ray, query_range)
                 IN  /\ IsSome(other) <=> IsSome(result)
                     /\ IsSome(other) => HitT(other) = HitT(result)

\* the list was scanned with the farther member first and the nearer second
HittableListMinimumWitness ==
    /\ IsSome(list_hit)
    /\ Len(objects) = 2
    /\ MemberHits = {1, 2}
    /\ MemberT(2) < MemberT(1)
    /\ HitT(Unwrap(list_hit)) = MemberT(2)

\* C7: for every non-empty list of spheres, every ray and every t_range,
\* BvhNode::new(objects).hit returns a hit iff a HittableList of the same
\* objects returns a hit, and both hits have the same t.
BvhEquivalence ==
    (IsSome(bvh_hit) /\ IsSome(list_hit)) =>
        /\ IsSome(Unwrap(bvh_hit)) <=> IsSome(Unwrap(list_hit))
        /\ IsSome(Unwrap(bvh_hit)) => HitT(Unwrap(bvh_hit)) = HitT(Unwrap(list_hit))

InRange(t) == query_range.min < t /\ t < query_range.max

\* C8: with d >= 0 and roots t1 <= t2, Sphere::hit returns t1 when t1 is
\* strictly inside t_range, else t2 when t2 is, else a miss; it misses when
\* d < 0; a root equal to t_range.min or t_range.max is never returned.
SphereRootSelection ==
    IsSome(sphere_hit) =>
        LET result == Unwrap(sphere_hit)
            d == Discriminant(objects[1], ray)
            t1 == Roots(objects[1], ray)[1]
            t2 == Roots(objects[1], ray)[2]
        IN  IF d < 0 THEN ~IsSome(result)
            ELSE /\ t1 <= t2
                 /\ InRange(t1) => (IsSome(result) /\ HitT(result) = t1)
                 /\ (~InRange(t1) /\ InRange(t2)) =>
                        (IsSome(result) /\ HitT(result) = t2)
                 /\ (~InRange(t1) /\ ~InRange(t2)) => ~IsSome(result)
                 /\ d = 0 => (IsSome(result) <=> InRange(t1))
                 /\ IsSome(result) =>
                        HitT(result) \notin {query_range.min, query_range.max}

\* the near root lies on t_range.min and the far root is the one returned
SphereRootSelectionWitness ==
    /\ IsSome(sphere_hit)
    /\ Discriminant(objects[1], ray) > 0
    /\ Roots(objects[1], ray)[1] = query_range.min
    /\ IsSome(Unwrap(sphere_hit))
    /\ HitT(Unwrap(sphere_hit)) = Roots(objects[1], ray)[2]

\* the hit records the queries returned
RecordsReturned ==
    {Unwrap(h).record : h \in {Unwrap(q) : q \in {q \in {sphere_hit, list_hit, bvh_hit} :
                                                    IsSome(q)}} \ {None}}

\* C9: a HitRecord built by HitRecord::new has front_face = (ray.direction .
\* outward_normal < 0) and stores the outward normal when front_face holds
\* and its negation otherwise, so ray.direction . normal <= 0 for every
\* hit record.
HitRecordFacesRay ==
    /\ IsSome(hit_record) =>
         LET given == Unwrap(hit_record).out_normal
             record == Unwrap(hit_record).record
         IN  /\ record.front_face <=> Dot(ray.direction, given) < 0
             /\ record.normal = IF record.front_face THEN given
                                ELSE [k \in 1..3 |-> -given[k]]
             /\ Dot(ray.direction, record.normal) <= 0
    /\ \A record \in RecordsReturned : Dot(ray.direction, record.normal) <= 0

\* a record built for a ray that leaves through the surface: its normal is
\* the negated outward normal
HitRecordFacesRayWitness ==
    /\ IsSome(hit_record)
    /\ Dot(ray.direction, Unwrap(hit_record).out_normal) > 0
    /\ ~Unwrap(hit_record).record.front_face
    /\ Dot(ray.direction, Unwrap(hit_record).record.normal) < 0

\* C10: for a moving sphere and a ray with time tau, Sphere::hit uses the
\* same center c = center0 + center_vec * tau for the roots and for the
\* outward normal (p - c) / R of the returned hit record.
MovingSphereNormal ==
    (IsSome(sphere_hit) /\ IsSome(Unwrap(sphere_hit))) =>
        LET s == objects[1]
            record == Unwrap(Unwrap(sphere_hit)).record
            c == VAdd(s.center, VMulTime(s.center_vec, ray.time))
            out_normal == VDivS(VSub(record.point, c), s.radius)
        IN  /\ record.t_value \in {Roots(s, ray)[1], Roots(s, ray)[2]}
            /\ LengthSquared(VSub(record.point, c)) = s.radius * s.radius
            /\ record.normal = IF Dot(ray.direction, out_normal) < 0
                                 THEN out_normal ELSE VNeg(out_normal)

(***************************************************************************)
(* The same program under fair scheduling: the main thread and every       *)
(* spawned worker thread keep being scheduled while they can take a step.  *)
(***************************************************************************)
Main == RenderPush \/ RenderReturn \/ Spawn \/ Join \/ Recv \/ Return

FairSpec ==
    /\ Init
    /\ [][Next]_vars
    /\ WF_vars(Main)
    /\ \A i \in 0..MaxWorkers : WF_vars(i \in DOMAIN workers /\ Worker(i))

(***************************************************************************)
(* Properties of render and render_multi.                                  *)
(***************************************************************************)
PixelNum == dimension.width * dimension.height

Returned == pc = "done"

ColorsSent == {k \in DOMAIN sent : sent[k].msg[1] = "Color"}

SentinelsOf(i) == {k \in DOMAIN sent : sent[k].from = i /\ sent[k].msg = NoneMsg}

RowsRendered(i) == {rows[i][k] : k \in DOMAIN rows[i]}

RowsAssigned(i) ==
    {r \in 0..(dimension.height - 1) : r % concurrency_level = i}

\* C2: worker i renders exactly the rows r of [0, height) with r mod W = i,
\* in increasing order, so every row is rendered by exactly one worker
\* (also when W does not divide height and when height < W).
InterleavedRows ==
    /\ \A i \in DOMAIN workers :
         /\ RowsRendered(i) \subseteq RowsAssigned(i)
         /\ \A k \in 1..(Len(rows[i]) - 1) : rows[i][k] < rows[i][k + 1]
         /\ workers[i].pc = "done" => RowsRendered(i) = RowsAssigned(i)
    /\ Returned =>
         \A r \in 0..(dimension.height - 1) :
            Cardinality({i \in DOMAIN workers : r \in RowsRendered(i)}) = 1

\* two workers have rendered three rows: worker 0 rows 0 and 2, worker 1 row 1
InterleavedRowsWitness ==
    /\ Returned
    /\ dimension.height = 3
    /\ dimension.width > 0
    /\ concurrency_level = 2
    /\ rows[0] = <<0, 2>>
    /\ rows[1] = <<1>>

SentinelsInChannel == {k \in DOMAIN channel : channel[k] = NoneMsg}

ColorsInChannel == {k \in DOMAIN channel : channel[k][1] = "Color"}

SentinelsSent == {k \in DOMAIN sent : sent[k].msg = NoneMsg}

\* C3: each worker sends exactly one sentinel, after all of its (index,
\* color) messages; the aggregator loop exits exactly when it has received W
\* sentinels, and then no (index, color) message is left in the channel.
SentinelProtocol ==
    /\ \A i \in DOMAIN workers :
         /\ Cardinality(SentinelsOf(i)) = (IF workers[i].pc = "done" THEN 1 ELSE 0)
         /\ \A s \in SentinelsOf(i) : \A k \in ColorsSent :
               sent[k].from = i => k < s
    /\ pc = "recv" =>
         /\ completed_threads =
              Cardinality(SentinelsSent) - Cardinality(SentinelsInChannel)
         /\ completed_threads <= concurrency_level
    /\ Returned =>
         /\ completed_threads = concurrency_level
         /\ Cardinality(SentinelsSent) - Cardinality(SentinelsInChannel)
              = concurrency_level
         /\ ColorsInChannel = {}

\* the loop has exited after the messages of two workers were received
SentinelProtocolWitness ==
    /\ Returned
    /\ concurrency_level = 2
    /\ Cardinality(ColorsSent) >= 4
    /\ completed_threads = 2
    /\ channel = <<>>

\* C4: under fair scheduling render_multi eventually returns, for every
\* width, height and W >= 1: the sends never block, the join completes and
\* the receive loop gets the W sentinels it waits for.
RenderMultiReturns == <>(Returned /\ IsSome(multi))

\* render_multi has returned although some worker had no row to render
RenderMultiReturnsWitness ==
    /\ Returned
    /\ IsSome(multi)
    /\ dimension.height < concurrency_level
    /\ \E i \in DOMAIN workers : rows[i] = <<>>

RenderIdle ==
    /\ dimension = [width |-> 0, height |-> 0]
    /\ concurrency_level = 1
    /\ render_row = 0
    /\ render_col = 0
    /\ render_pixels = <<>>
    /\ single = None
    /\ spawn_i = 0
    /\ workers = [i \in {0} |-> Unspawned]
    /\ channel = <<>>
    /\ pixels = <<>>
    /\ completed_threads = 0
    /\ multi = None
    /\ sent = <<>>
    /\ written = <<>>
    /\ rows = [i \in {0} |-> <<>>]
    /\ progress = <<>>

HitResultsIdle ==
    /\ sphere_hit = None
    /\ hit_record = None
    /\ list_hit = None
    /\ bvh = None
    /\ bvh_hit = None

HitIdle ==
    /\ objects = <<>>
    /\ ray = RayDefault
    /\ query_range = IntervalEmpty
    /\ HitResultsIdle

(***************************************************************************)
(* The slab test AABB::hit (aabb.rs) on its own.                           *)
(***************************************************************************)
\* the intervals of a box's axes: min < max
Slabs == {IntervalNew(-1, 1), IntervalNew(0, 2)}

Boxes == [1..3 -> Slabs]

\* inside, on the faces of and outside the boxes
Coordinates == {-2, 0, 1, 3}

Directions == {-1, 0, 1}

AabbRays ==
    {[origin |-> o, direction |-> d, time |-> 0] :
        o \in [1..3 -> Coordinates], d \in [1..3 -> Directions]}

AabbRanges == {IntervalNew(0, PosInf), IntervalNew(2, 4), IntervalNew(NegInf, PosInf)}

AabbInit ==
    /\ pc = "aabb"
    /\ RenderIdle
    /\ objects = <<>>
    /\ ray \in AabbRays
    /\ query_range \in AabbRanges
    /\ HitResultsIdle
    /\ aabb \in Boxes
    /\ aabb_hit = None
    /\ AabbRestIdle

\* AABB::hit(ray, t_range)
AABBHitStep ==
    /\ pc = "aabb"
    /\ aabb_hit' = Some(AABBHit(aabb, ray, query_range))
    /\ pc' = "aabb_done"
    /\ UNCHANGED <<render_state, hit_state, aabb, aabb_rest>>

AabbNext == AABBHitStep

AabbSpec == AabbInit /\ [][AabbNext]_vars

\* the ray's origin lies strictly inside the box
OriginInside ==
    \A ax \in Axes :
        /\ AxisInterval(aabb, ax).min < VecAt(ray.origin, ax)
        /\ VecAt(ray.origin, ax) < AxisInterval(aabb, ax).max

\* the ray is parallel to the slab of ax and its origin strictly outside it
ParallelOutside(ax) ==
    /\ VecAt(ray.direction, ax) = 0
    /\ \/ VecAt(ray.origin, ax) < AxisInterval(aabb, ax).min
       \/ VecAt(ray.origin, ax) > AxisInterval(aabb, ax).max

\* C11: for a box with min < max on every axis, AABB::hit(ray, (0, +inf)) is
\* true for every ray whose origin lies strictly inside the box, whatever its
\* nonzero direction; and AABB::hit is false, for every t_range, for every
\* ray parallel to the slab of some axis with its origin strictly outside it.
AABBSlabTest ==
    IsSome(aabb_hit) =>
        /\ (/\ OriginInside
            /\ ray.direction # <<0, 0, 0>>
            /\ query_range = IntervalNew(0, PosInf)) => Unwrap(aabb_hit) = TRUE
        /\ (\E ax \in Axes : ParallelOutside(ax)) => Unwrap(aabb_hit) = FALSE

\* a ray from inside the box, parallel to two of its slabs, going down the third
AABBSlabTestWitness ==
    /\ IsSome(aabb_hit)
    /\ OriginInside
    /\ ray.direction = <<0, 0, -1>>
    /\ query_range = IntervalNew(0, PosInf)
    /\ Unwrap(aabb_hit) = TRUE


(***************************************************************************)
(* The Interval operations (interval.rs) on their own.                     *)
(***************************************************************************)
\* the bounds of the intervals: finite values and the two infinities
IntervalBounds == {NegInf, -1, 0, 1, PosInf}

\* every pair of bounds, the inverted ones and Interval::empty() included
Intervals == {IntervalNew(min, max) : min \in IntervalBounds, max \in IntervalBounds}

IntervalValues == {NegInf, -2, -1, 0, 1, 2, PosInf}

IntervalInit ==
    /\ pc = "interval"
    /\ RenderIdle
    /\ HitIdle
    /\ IntervalRestIdle
    /\ int_self \in Intervals
    /\ int_other \in Intervals
    /\ int_value \in IntervalValues
    /\ contains_ret = None
    /\ surrounds_ret = None
    /\ clamp_ret = None
    /\ combined = None

\* self.contains(value)
IntervalContainsStep ==
    /\ pc = "interval"
    /\ contains_ret' = Some(IntervalContains(int_self, int_value))
    /\ pc' = "interval_done"
    /\ UNCHANGED <<render_state, hit_state, interval_rest>>
    /\ UNCHANGED <<int_self, int_other, int_value, surrounds_ret, clamp_ret, combined>>

\* self.surrounds(value)
IntervalSurroundsStep ==
    /\ pc = "interval"
    /\ surrounds_ret' = Some(IntervalSurrounds(int_self, int_value))
    /\ pc' = "interval_done"
    /\ UNCHANGED <<render_state, hit_state, interval_rest>>
    /\ UNCHANGED <<int_self, int_other, int_value, contains_ret, clamp_ret, combined>>

\* self.clamp(value)
IntervalClampStep ==
    /\ pc = "interval"
    /\ clamp_ret' = Some(IntervalClamp(int_self, int_value))
    /\ pc' = "interval_done"
    /\ UNCHANGED <<render_state, hit_state, interval_rest>>
    /\ UNCHANGED <<int_self, int_other, int_value, contains_ret, surrounds_ret, combined>>

\* self.combine_new(&other)
IntervalCombineNewStep ==
    /\ pc = "interval"
    /\ combined' = Some(IntervalCombineNew(int_self, int_other))
    /\ pc' = "combine"
    /\ UNCHANGED <<render_state, hit_state, interval_rest>>
    /\ UNCHANGED <<int_self, int_other, int_value, contains_ret, surrounds_ret, clamp_ret>>

\* self.combine(&other), in place
IntervalCombineStep ==
    /\ pc = "combine"
    /\ int_self' = IntervalCombine(int_self, int_other)
    /\ pc' = "interval_done"
    /\ UNCHANGED <<render_state, hit_state, interval_rest>>
    /\ UNCHANGED <<int_other, int_value, contains_ret, surrounds_ret, clamp_ret, combined>>

IntervalNext ==
    \/ IntervalContainsStep
    \/ IntervalSurroundsStep
    \/ IntervalClampStep
    \/ IntervalCombineNewStep
    \/ IntervalCombineStep

IntervalSpec == IntervalInit /\ [][IntervalNext]_vars

\* C12: for an interval (a, b) with a <= b and every value v, contains(v) is
\* true iff a <= v <= b, surrounds(v) is true iff a < v < b, and clamp(v)
\* returns a value of [a, b] that is v whenever v is in [a, b] already.
IntervalMembership ==
    int_self.min <= int_self.max =>
        /\ IsSome(contains_ret) =>
             (Unwrap(contains_ret) <=>
                (int_self.min <= int_value /\ int_value <= int_self.max))
        /\ IsSome(surrounds_ret) =>
             (Unwrap(surrounds_ret) <=>
                (int_self.min < int_value /\ int_value < int_self.max))
        /\ IsSome(clamp_ret) =>
             /\ int_self.min <= Unwrap(clamp_ret)
             /\ Unwrap(clamp_ret) <= int_self.max
             /\ (int_self.min <= int_value /\ int_value <= int_self.max) =>
                  Unwrap(clamp_ret) = int_value

\* a value above a finite interval was clamped to its max
IntervalMembershipWitness ==
    /\ pc = "interval_done"
    /\ IsSome(clamp_ret)
    /\ int_self = IntervalNew(-1, 1)
    /\ int_value = 2
    /\ Unwrap(clamp_ret) = 1

Least(a, b) == IF a <= b THEN a ELSE b

Greatest(a, b) == IF a >= b THEN a ELSE b

\* C13: combine_new is commutative and associative, yields (min of the
\* mins, max of the maxes) and has Interval::empty() = (+inf, -inf) as its
\* identity; the in-place combine leaves in self what combine_new returned.
IntervalCombineAlgebra ==
    /\ IntervalEmpty = IntervalNew(PosInf, NegInf)
    /\ (pc = "combine") =>
        LET result == Unwrap(combined)
        IN  /\ result = IntervalCombineNew(int_other, int_self)
            /\ result.min = Least(int_self.min, int_other.min)
            /\ result.max = Greatest(int_self.max, int_other.max)
            /\ \A c \in Intervals :
                 IntervalCombineNew(result, c)
                   = IntervalCombineNew(int_self, IntervalCombineNew(int_other, c))
            /\ int_other = IntervalEmpty => result = int_self
            /\ int_self = IntervalEmpty => result = int_other
    /\ (pc = "interval_done" /\ IsSome(combined)) => int_self = Unwrap(combined)

\* two overlapping intervals, neither inside the other, were combined in place
IntervalCombineAlgebraWitness ==
    /\ pc = "interval_done"
    /\ IsSome(combined)
    /\ int_other = IntervalNew(0, PosInf)
    /\ int_self = IntervalNew(-1, PosInf)
    /\ Unwrap(combined) = IntervalNew(-1, PosInf)


(***************************************************************************)
(* Materials (material.rs) and the Vector operations they use (vec.rs).    *)
(* The directions of the model are multiples of the axes' unit vectors,    *)
(* for which the lengths are exact.                                        *)
(***************************************************************************)
FAbs(a) == IF a = NaN THEN NaN ELSE IF a < 0 THEN -a ELSE a

\* f64::min: the other operand when one is NaN
FMin(a, b) == IF a = NaN THEN b ELSE IF b = NaN THEN a ELSE IF a < b THEN a ELSE b

UnitVector(v) == VDivS(v, FSqrt(LengthSquared(v)))

\* DELTA = 1e-8 lies below every nonzero value of the model
NearZero(v) == \A k \in 1..3 : v[k] = 0

Reflect(v, n) == VSub(v, VMulS(VMulS(n, Dot(v, n)), 2))

Refract(v, n, refraction_ratio) ==
    LET cos_theta == FMin(Dot(VNeg(v), n), 1)
        r_out_perpendicular == VMulS(VAdd(v, VMulS(n, cos_theta)), refraction_ratio)
        r_out_parallel ==
            VMulS(VNeg(n), FSqrt(FAbs(FSub(1, LengthSquared(r_out_perpendicular)))))
    IN  VAdd(r_out_perpendicular, r_out_parallel)

\* a color channel is kept in twentieths: 1.0 is ColorOne
ColorOne == 20

\* Color::new_one(1.0)
White == <<ColorOne, ColorOne, ColorOne>>

\* the albedo of the model's Lambertian and Metal: (1.0, 0.0, 1.0)
Albedo == <<ColorOne, 0, ColorOne>>

\* Color * Color, channel by channel
ColorMul(a, b) == [k \in 1..3 |-> FDiv(FMul(a[k], b[k]), ColorOne)]

LambertianNew(albedo) == [kind |-> "Lambertian", albedo |-> albedo]

MetalNew(albedo, fuzz) == [kind |-> "Metal", albedo |-> albedo, fuzz |-> fuzz]

DielectricNew(refractive_index) ==
    [kind |-> "Dielectric", refractive_index |-> refractive_index]

ScatterResult(r, attenuation) == [ray |-> r, attenuation |-> attenuation]

\* the random values one scatter may draw
Draws(rec) ==
    {[unit_vector |-> u, in_unit_sphere |-> <<0, 0, 0>>, canonical |-> 0] :
        u \in {rec.normal, VNeg(rec.normal)}}

LambertianScatter(m, r, rec, draw) ==
    LET sum == VAdd(rec.normal, draw.unit_vector)
        scatter_direction == IF NearZero(sum) THEN rec.normal ELSE sum
    IN  Some(ScatterResult([origin |-> rec.point, direction |-> scatter_direction,
                            time |-> r.time], m.albedo))

\* a variant of Metal::scatter whose ray is Ray::default() but for its direction
MetalScatterDefaultRay(m, r, rec, draw) ==
    LET reflected == VAdd(Reflect(UnitVector(r.direction), rec.normal),
                          VMulS(draw.in_unit_sphere, m.fuzz))
    IN  IF FGt(Dot(reflected, rec.normal), 0)
          THEN Some(ScatterResult([RayDefault EXCEPT !.direction = reflected,
                                                     !.time = 0], m.albedo))
          ELSE None

\* a variant of Metal::scatter that lets a grazing reflection through
MetalScatterGrazing(m, r, rec, draw) ==
    LET reflected == VAdd(Reflect(UnitVector(r.direction), rec.normal),
                          VMulS(draw.in_unit_sphere, m.fuzz))
    IN  IF FGe(Dot(reflected, rec.normal), 0)
          THEN Some(ScatterResult([origin |-> rec.point, direction |-> reflected,
                                   time |-> r.time], m.albedo))
          ELSE None

MetalScatter(m, r, rec, draw) ==
    LET reflected == VAdd(Reflect(UnitVector(r.direction), rec.normal),
                          VMulS(draw.in_unit_sphere, m.fuzz))
    IN  IF FGt(Dot(reflected, rec.normal), 0)
          THEN Some(ScatterResult([origin |-> rec.point, direction |-> reflected,
                                   time |-> r.time], m.albedo))
          ELSE None

\* Schlick's approximation
Reflectance(cosine, refractive_index) ==
    LET r == FDiv(FSub(1, refractive_index), FAdd(1, refractive_index))
        r0 == FMul(r, r)
        x == FSub(1, cosine)
    IN  FAdd(r0, FMul(FSub(1, r0), FMul(FMul(FMul(x, x), FMul(x, x)), x)))

DielectricScatter(m, r, rec, draw) ==
    LET refraction_ratio == IF rec.front_face THEN FDiv(1, m.refractive_index)
                            ELSE m.refractive_index
        unit_direction == UnitVector(r.direction)
        cos_theta == FMin(Dot(VNeg(unit_direction), rec.normal), 1)
        sin_theta == FSqrt(FSub(1, FMul(cos_theta, cos_theta)))
        cannot_refract ==
            \/ FGt(FMul(refraction_ratio, sin_theta), 1)
            \/ FGt(Reflectance(cos_theta, refraction_ratio), draw.canonical)
        scatter == IF cannot_refract THEN Reflect(unit_direction, rec.normal)
                   ELSE Refract(unit_direction, rec.normal, refraction_ratio)
    IN  Some(ScatterResult([origin |-> rec.point, direction |-> scatter,
                            time |-> r.time], White))

\* dyn Material: scatter of the material's kind
Scatter(m, r, rec, draw) ==
    CASE m.kind = "Lambertian" -> LambertianScatter(m, r, rec, draw)
      [] m.kind = "Metal" -> MetalScatter(m, r, rec, draw)
      [] m.kind = "Dielectric" -> DielectricScatter(m, r, rec, draw)

\* material.and_then(|v| v.scatter(ray, record))
AndThenScatter(material, r, rec, draw) ==
    IF IsSome(material) THEN Scatter(Unwrap(material), r, rec, draw) ELSE None


(***************************************************************************)
(* RayTracer::ray_color (ray_tracer.rs), one call at a time: a call either *)
(* returns a color or waits on path_stack for its recursive call.  The     *)
(* scene is any Hittable: hittable.hit may answer a miss or any hit.       *)
(***************************************************************************)
MaxDepth == 2

PathPoints == {<<0, 0, 0>>, <<1, 0, 0>>}

PathMaterials ==
    {None, Some(LambertianNew(Albedo)), Some(MetalNew(Albedo, 1)),
     Some(DielectricNew(1))}

\* a unit vector across v, for v along an axis
Across(v) == UnitVector(<<v[2], v[3], v[1]>>)

\* outward normals at a hit: against the ray (a front face) and across it
\* (a grazing hit, which HitRecord::new takes for a back face)
OutNormalsOf(r) == {VNeg(UnitVector(r.direction)), Across(r.direction)}

\* Some(HitResult { record, material }) of any scene
HitResults(r) ==
    {[record |-> HitRecordNew(r, out_normal, point, Vec2Default, 1),
      material |-> material] :
        out_normal \in OutNormalsOf(r), point \in PathPoints,
        material \in PathMaterials}

\* the y of the model's blue (0.5, 0.7, 1.0) is a whole number of twentieths
Blue == <<ColorOne \div 2, 14, ColorOne>>

\* the background: white * (1.0 - a) + blue * a, a = 0.5 * (y + 1.0) in halves
Background(r) ==
    LET direction == UnitVector(r.direction)
        a == FAdd(direction[2], 1)
    IN  [k \in 1..3 |-> FDiv(FAdd(FMul(White[k], FSub(2, a)), FMul(Blue[k], a)), 2)]

\* Color::from(normal * 0.5 + 0.5)
DebugShading(n) ==
    [k \in 1..3 |-> FAdd(FDiv(FMul(n[k], ColorOne), 2), ColorOne \div 2)]

\* a variant of the recursive call's depth that passes depth on
SameDepth(depth) == depth

\* the depth of the recursive call
NextDepth(depth) == depth - 1

Frame == [depth |-> path_depth, ray |-> path_ray, hit |-> path_hit,
          scatter |-> path_scatter]

\* get_color: one sample's call ray_color(ray, self.max_depth, hittable)
PathInit ==
    /\ pc = "ray_color"
    /\ RenderIdle
    /\ HitIdle
    /\ PathRestIdle
    /\ max_depth \in 0..MaxDepth
    /\ sample_time \in Times
    /\ path_depth = max_depth
    /\ path_ray \in {[origin |-> <<0, 0, -3>>, direction |-> d, time |-> sample_time] :
                        d \in {<<0, 0, 1>>, <<0, 1, 0>>}}
    /\ path_hit = None
    /\ path_scatter = None
    /\ path_stack = <<>>
    /\ path_ret = None
    /\ path_queries = 0

\* depth <= 0: return Color::new_one(0.0)
RayColorDepth ==
    /\ pc = "ray_color"
    /\ path_depth <= 0
    /\ path_ret' = Some(Black)
    /\ pc' = "return"
    /\ UNCHANGED <<render_state, hit_state, path_rest>>
    /\ UNCHANGED <<max_depth, sample_time, path_depth, path_ray, path_hit,
                   path_scatter, path_stack, path_queries>>

\* hittable.hit returns None: the background color
RayColorMiss ==
    /\ pc = "ray_color"
    /\ path_depth > 0
    /\ path_queries' = path_queries + 1
    /\ path_hit' = None
    /\ path_ret' = Some(Background(path_ray))
    /\ pc' = "return"
    /\ UNCHANGED <<render_state, hit_state, path_rest>>
    /\ UNCHANGED <<max_depth, sample_time, path_depth, path_ray, path_scatter,
                   path_stack>>

\* a hit whose material scatters: the recursive call
RayColorScatter ==
    /\ pc = "ray_color"
    /\ path_depth > 0
    /\ Len(path_stack) <= MaxDepth
    /\ \E h \in HitResults(path_ray) : \E draw \in Draws(h.record) :
         LET scattered == AndThenScatter(h.material, path_ray, h.record, draw)
         IN  /\ IsSome(scattered)
             /\ path_stack' = Append(path_stack,
                                     [Frame EXCEPT !.hit = Some(h),
                                                   !.scatter = scattered])
             /\ path_ray' = Unwrap(scattered).ray
    /\ path_depth' = NextDepth(path_depth)
    /\ path_queries' = path_queries + 1
    /\ path_hit' = None
    /\ path_scatter' = None
    /\ UNCHANGED <<render_state, hit_state, path_rest>>
    /\ UNCHANGED <<pc, max_depth, sample_time, path_ret>>

\* a hit with no scattered ray: Color::from(normal * 0.5 + 0.5)
RayColorShade ==
    /\ pc = "ray_color"
    /\ path_depth > 0
    /\ \E h \in HitResults(path_ray) : \E draw \in Draws(h.record) :
         LET scattered == AndThenScatter(h.material, path_ray, h.record, draw)
         IN  /\ ~IsSome(scattered)
             /\ path_hit' = Some(h)
             /\ path_scatter' = scattered
             /\ path_ret' = Some(DebugShading(h.record.normal))
    /\ path_queries' = path_queries + 1
    /\ pc' = "return"
    /\ UNCHANGED <<render_state, hit_state, path_rest>>
    /\ UNCHANGED <<max_depth, sample_time, path_depth, path_ray, path_stack>>

\* the recursive call returned: attenuation * its color
RayColorReturn ==
    /\ pc = "return"
    /\ path_stack # <<>>
    /\ LET caller == path_stack[Len(path_stack)]
       IN  /\ path_ret' = Some(ColorMul(Unwrap(caller.scatter).attenuation,
                                        Unwrap(path_ret)))
           /\ path_depth' = caller.depth
           /\ path_ray' = caller.ray
           /\ path_hit' = caller.hit
           /\ path_scatter' = caller.scatter
    /\ path_stack' = SubSeq(path_stack, 1, Len(path_stack) - 1)
    /\ UNCHANGED <<render_state, hit_state, path_rest>>
    /\ UNCHANGED <<pc, max_depth, sample_time, path_queries>>

PathNext ==
    \/ RayColorDepth
    \/ RayColorMiss
    \/ RayColorScatter
    \/ RayColorShade
    \/ RayColorReturn

PathSpec == PathInit /\ [][PathNext]_vars


(***************************************************************************)
(* Properties of ray_color.                                                *)
(***************************************************************************)
PathReturned == pc = "return" /\ path_stack = <<>>

\* the steps a sample has left at most: two per query it may still make,
\* one per call waiting on the stack, one while a call is running
RayColorMeasure ==
    2 * (max_depth - path_queries) + Len(path_stack)
      + (IF pc = "ray_color" THEN 1 ELSE 0)

\* what holds of the depths and of the queries at every step of a sample
RayColorBudget ==
    /\ path_depth + Len(path_stack) = max_depth
    /\ path_depth >= 0
    /\ pc = "ray_color" => path_queries = Len(path_stack)
    /\ path_queries <= max_depth
    /\ RayColorMeasure >= 0
    /\ pc \in {"ray_color", "return"}
    /\ (pc = "return" /\ path_depth = 0) =>
         /\ Unwrap(path_ret) = Black
         /\ path_hit = None
         /\ path_queries = Len(path_stack)

\* C14: ray_color called with depth = 0 returns black without querying the
\* scene, every recursive call passes depth - 1, so one sample performs at
\* most max_depth scene intersection queries; and every step of a sample
\* lowers a measure that is never negative, so the sample's call returns.
RayColorTerminates ==
    /\ []RayColorBudget
    /\ [][RayColorMeasure' < RayColorMeasure]_vars

\* a path of max_depth scatters ran into depth 0 and has returned
RayColorTerminatesWitness ==
    /\ PathReturned
    /\ max_depth = MaxDepth
    /\ path_queries = max_depth
    /\ IsSome(path_scatter)
    /\ Unwrap(path_ret) = Black


\* C15: in ray_color with depth > 0, when the ray hits a primitive that has a
\* material and that material's scatter fails, the returned color is black;
\* the debug shading 0.5*(normal + 1) is returned only when the hit
\* primitive has no material.
RayColorAbsorbed ==
    (pc = "return" /\ IsSome(path_hit) /\ ~IsSome(path_scatter)) =>
        LET hit_result == Unwrap(path_hit)
        IN  /\ IsSome(hit_result.material) => Unwrap(path_ret) = Black
            /\ Unwrap(path_ret) = DebugShading(hit_result.record.normal) =>
                 ~IsSome(hit_result.material)

\* the rays of the calls of the sample: the running one and the waiting ones
PathRays == {path_ray} \cup {path_stack[k].ray : k \in DOMAIN path_stack}

\* C16: for each of Lambertian, Metal and Dielectric, the ray scatter returns
\* has the incident ray's time and the hit point as its origin; so every ray
\* of a sample's path carries the time drawn for the camera ray.
ScatterKeepsTime ==
    /\ \A r \in PathRays : r.time = sample_time
    /\ \A k \in DOMAIN path_stack :
         LET caller == path_stack[k]
             scattered == Unwrap(caller.scatter).ray
         IN  /\ Unwrap(Unwrap(caller.hit).material).kind
                  \in {"Lambertian", "Metal", "Dielectric"}
             /\ scattered.time = caller.ray.time
             /\ scattered.origin = Unwrap(caller.hit).record.point
             /\ k < Len(path_stack) => path_stack[k + 1].ray = scattered
             /\ (k = Len(path_stack) /\ pc = "ray_color") => path_ray = scattered

\* a camera ray of time 0.5 was reflected off Metal at (1, 0, 0) and went
\* through a Dielectric at (0, 0, 0)
ScatterKeepsTimeWitness ==
    /\ pc = "ray_color"
    /\ sample_time = 1
    /\ Len(path_stack) = 2
    /\ Unwrap(Unwrap(path_stack[1].hit).material).kind = "Metal"
    /\ Unwrap(path_stack[1].hit).record.point = <<1, 0, 0>>
    /\ Unwrap(Unwrap(path_stack[2].hit).material).kind = "Dielectric"
    /\ path_ray.origin = <<0, 0, 0>>
    /\ path_ray.time = 1

(***************************************************************************)
(* Reruns of RayTracer::render: the same tracer and scene rendered by two  *)
(* runs of the program, one after the other.  The random values come from  *)
(* rand::thread_rng() (util.rs), which the operating system seeds afresh   *)
(* in every process; the program has no seed to fix, so each draw is any   *)
(* value of the distribution, whatever the run before drew.                *)
(***************************************************************************)
\* util::get_random_canonical(): any of the values 0.0 and 0.5
GetRandomCanonical == Times

\* sample_color_at with the value its sample drew: the colour of a pixel is a
\* function of the pixel and of the draws of its samples
SampleColorDrawn(col, row, draw) == <<draw, col, row>>

RerunInit ==
    /\ pc = "rerun"
    /\ RenderIdle
    /\ HitIdle
    /\ RerunRestIdle
    /\ run_dimension \in {d \in [width : 1..MaxWidth, height : 1..MaxHeight] :
                            d.width * d.height <= MaxPixels}
    /\ run_row = 0
    /\ run_col = 0
    /\ run_pixels = <<>>
    /\ run_images = <<>>

\* render: one pass of the inner loop, with the draw of the pixel's sample
RerunPush ==
    /\ pc = "rerun"
    /\ run_row < run_dimension.height
    /\ run_col < run_dimension.width
    /\ \E draw \in GetRandomCanonical :
         run_pixels' = Append(run_pixels, SampleColorDrawn(run_col, run_row, draw))
    /\ IF run_col + 1 < run_dimension.width
         THEN /\ run_col' = run_col + 1
              /\ run_row' = run_row
         ELSE /\ run_col' = 0
              /\ run_row' = run_row + 1
    /\ UNCHANGED <<pc, run_dimension, run_images>>
    /\ UNCHANGED <<render_state, hit_state, rerun_rest>>

\* render: the loops are over, the Image is returned and the run ends
RerunReturn ==
    /\ pc = "rerun"
    /\ run_row >= run_dimension.height
    /\ run_images' = Append(run_images, [pixels |-> run_pixels,
                                         dimension |-> run_dimension])
    /\ pc' = "rerun_end"
    /\ UNCHANGED <<run_dimension, run_row, run_col, run_pixels>>
    /\ UNCHANGED <<render_state, hit_state, rerun_rest>>

\* the program is run once more on the same scene and parameters
RerunAgain ==
    /\ pc = "rerun_end"
    /\ Len(run_images) < 2
    /\ run_row' = 0
    /\ run_col' = 0
    /\ run_pixels' = <<>>
    /\ pc' = "rerun"
    /\ UNCHANGED <<run_dimension, run_images>>
    /\ UNCHANGED <<render_state, hit_state, rerun_rest>>

RerunNext ==
    \/ RerunPush
    \/ RerunReturn
    \/ RerunAgain

RerunSpec == RerunInit /\ [][RerunNext]_vars

\* C17: two single-thread runs of render over the same scene and the same
\* tracer parameters return identical images, the same colour at every pixel
\* index.  (The code offers no seed to fix: every run draws from a freshly
\* seeded thread_rng.)
RerunsIdentical ==
    Len(run_images) = 2 =>
        /\ run_images[1].dimension = run_images[2].dimension
        /\ \A index \in DOMAIN run_images[1].pixels :
             run_images[1].pixels[index] = run_images[2].pixels[index]

(***************************************************************************)
(* parse_args (lib.rs): one tracer parameter followed from the command     *)
(* line and the config file to its field of param.  A text is the sequence *)
(* of its parts between '/'; a part is <<n>> for the digits of n, <<n, d>> *)
(* for "n.d" and <<>> for anything that is not a number.  f64 values are   *)
(* in tenths.                                                              *)
(***************************************************************************)
Fields == {"height", "sampling", "depth", "vfov", "angle", "focus", "look_from", "look_at"}

\* the $type of parse_config!, "vector" for the fields of parse_config_fn!
FieldType(field) ==
    CASE field \in {"height", "sampling", "depth"} -> "u32"
      [] field \in {"vfov", "angle", "focus"} -> "f64"
      [] field \in {"look_from", "look_at"} -> "vector"

\* the fields clap parses itself: value_parser!(u32) and value_parser!(f64)
Typed(field) == FieldType(field) # "vector"

\* TracerParams::default()
TracerParamsDefault(field) ==
    CASE field = "height" -> 480
      [] field = "sampling" -> 20
      [] field = "depth" -> 10
      [] field = "vfov" -> 200
      [] field = "angle" -> 6
      [] field = "focus" -> 100
      [] field = "look_from" -> <<130, 20, 30>>
      [] field = "look_at" -> <<0, 0, 0>>

\* "7", "2.5", "x", "1/2/3", "1.5/2/3", "1/2", "1/x/3"
Texts ==
    { << <<7>> >>, << <<2, 5>> >>, << <<>> >>,
      << <<1>>, <<2>>, <<3>> >>, << <<1, 5>>, <<2>>, <<3>> >>,
      << <<1>>, <<2>> >>, << <<1>>, <<>>, <<3>> >> }

\* str::parse::<u32>().ok() of one part
PartU32(part) == IF Len(part) = 1 THEN Some(part[1]) ELSE None

\* str::parse::<f64>().ok() of one part
PartF64(part) ==
    IF Len(part) = 1 THEN Some(part[1] * 10)
    ELSE IF Len(part) = 2 THEN Some(part[1] * 10 + part[2])
    ELSE None

\* v.parse::<u32>().ok(): a text with a '/' is no number
ParseU32(text) == IF Len(text) = 1 THEN PartU32(text[1]) ELSE None

ParseF64(text) == IF Len(text) = 1 THEN PartF64(text[1]) ELSE None

\* parse_vector::<f64, 3>: every part parses and there are three of them
ParseVector(text) ==
    IF \A k \in DOMAIN text : IsSome(PartF64(text[k]))
      THEN IF Len(text) = 3
             THEN Some([k \in 1..3 |-> Unwrap(PartF64(text[k]))])
             ELSE None
      ELSE None

ParseAs(type, text) ==
    CASE type = "u32" -> ParseU32(text)
      [] type = "f64" -> ParseF64(text)
      [] type = "vector" -> ParseVector(text)

\* Option<&str>::and_then(parse)
AndThenParse(type, option) ==
    IF IsSome(option) THEN ParseAs(type, Unwrap(option)) ELSE None

\* a variant of .map(|v| $dest = v) that clears the field on None
MapAssignOrClear(dest, option) == IF IsSome(option) THEN Unwrap(option) ELSE 0

\* option.map(|v| $dest = v): the field after the statement
MapAssign(dest, option) == IF IsSome(option) THEN Unwrap(option) ELSE dest

ArgsInit ==
    /\ pc = "parse_args"
    /\ RenderIdle
    /\ HitIdle
    /\ ArgsRestIdle
    /\ args_field \in Fields
    /\ args_cli \in {None} \cup {Some(text) : text \in Texts}
    /\ args_file \in {None, Some(None)} \cup {Some(Some(text)) : text \in Texts}
    /\ args_matches = None
    /\ args_config = None
    /\ args_param = 0
    /\ args_exit = None

\* let mut param = TracerParams::default(); Command::new(..)...get_matches():
\* clap exits with status 2 on a value its value_parser rejects
ArgsGetMatches ==
    /\ pc = "parse_args"
    /\ args_param' = TracerParamsDefault(args_field)
    /\ IF Typed(args_field) /\ IsSome(args_cli)
            /\ AndThenParse(FieldType(args_field), args_cli) = None
         THEN /\ args_exit' = Some(2)
              /\ pc' = "args_exit"
              /\ UNCHANGED args_matches
         ELSE /\ args_matches' = IF Typed(args_field)
                                   THEN AndThenParse(FieldType(args_field), args_cli)
                                   ELSE args_cli
              /\ pc' = "build_config"
              /\ UNCHANGED args_exit
    /\ UNCHANGED <<args_field, args_cli, args_file, args_config>>
    /\ UNCHANGED <<render_state, hit_state, args_rest>>

\* Config::builder()...unwrap_or_else(HashMap::new()), then config.get($name)
ArgsBuildConfig ==
    /\ pc = "build_config"
    /\ args_config' = IF IsSome(args_file) THEN Unwrap(args_file) ELSE None
    /\ pc' = "parse_config"
    /\ UNCHANGED <<args_field, args_cli, args_file, args_matches, args_param, args_exit>>
    /\ UNCHANGED <<render_state, hit_state, args_rest>>

\* $config.get($name).and_then(parse).map(|v| $dest = v)
ArgsParseConfig ==
    /\ pc = "parse_config"
    /\ args_param' = MapAssign(args_param, AndThenParse(FieldType(args_field), args_config))
    /\ pc' = "parse_matches"
    /\ UNCHANGED <<args_field, args_cli, args_file, args_matches, args_config, args_exit>>
    /\ UNCHANGED <<render_state, hit_state, args_rest>>

\* $matches.get_one::<$type>($name).map(|v| $dest = *v), and for the vectors
\* $matches.get_one::<String>($name).and_then($parsefn).map(|v| $dest = v);
\* then ParsedArgs is returned
ArgsParseMatches ==
    /\ pc = "parse_matches"
    /\ args_param' = MapAssign(args_param,
                               IF Typed(args_field)
                                 THEN args_matches
                                 ELSE AndThenParse(FieldType(args_field), args_matches))
    /\ pc' = "args_done"
    /\ UNCHANGED <<args_field, args_cli, args_file, args_matches, args_config, args_exit>>
    /\ UNCHANGED <<render_state, hit_state, args_rest>>

ArgsNext ==
    \/ ArgsGetMatches
    \/ ArgsBuildConfig
    \/ ArgsParseConfig
    \/ ArgsParseMatches

ArgsSpec == ArgsInit /\ [][ArgsNext]_vars

\* the command line gives a text that parses as the field's type
CliValid == IsSome(AndThenParse(FieldType(args_field), args_cli))

\* the config file was read and has a text for the field that parses
ConfigValid ==
    /\ IsSome(args_file)
    /\ IsSome(AndThenParse(FieldType(args_field), Unwrap(args_file)))

\* the CLI value, else the config-file value, else the default
Precedence ==
    IF CliValid THEN Unwrap(AndThenParse(FieldType(args_field), args_cli))
    ELSE IF ConfigValid
           THEN Unwrap(AndThenParse(FieldType(args_field), Unwrap(args_file)))
           ELSE TracerParamsDefault(args_field)

ArgsOver == pc \in {"args_done", "args_exit"}

\* C18 as stated: for each tracer parameter parse_args yields the CLI value
\* when a valid one is given, otherwise the config-file value when it is
\* present and parses, otherwise the TracerParams default; a config or CLI
\* value that fails to parse leaves the field as it was.
ParseArgsPrecedence ==
    ArgsOver => (args_exit = None /\ args_param = Precedence)

\* C18, amended: parse_args returns the CLI value when a valid one is given,
\* otherwise the config-file value when it is present and parses, otherwise the
\* default, except that a CLI value of height, sampling, depth, vfov, angle or
\* focus that fails to parse ends the process with status 2 before any field is
\* read; a config value, or a look_from or look_at CLI value, that fails to
\* parse leaves the field as it was.
ParseArgsPrecedenceTyped ==
    ArgsOver =>
        IF Typed(args_field) /\ IsSome(args_cli) /\ ~CliValid
          THEN pc = "args_exit" /\ args_exit = Some(2)
          ELSE pc = "args_done" /\ args_exit = None /\ args_param = Precedence

\* parse_args returned look_from from the config file's "1/2/3" although the
\* command line gave "1/x/3"
ParseArgsPrecedenceTypedWitness ==
    /\ pc = "args_done"
    /\ args_field = "look_from"
    /\ args_cli = Some(<< <<1>>, <<>>, <<3>> >>)
    /\ args_file = Some(Some(<< <<1>>, <<2>>, <<3>> >>))
    /\ args_param = <<10, 20, 30>>

(***************************************************************************)
(* main (main.rs of 2_the-next-week and of src) and generate_ppm_image:    *)
(* the output path, the prompt, the render and the write, in the order of  *)
(* the code.                                                               *)
(***************************************************************************)
Crates == {"2_the-next-week", "src"}

Paths == {"image.ppm", "out"}

\* what a path is on disk
PathKinds == {"absent", "file", "dir"}

\* if args.len() >= 2 { args[1] } else { "image.ppm" }
Filepath == IF Len(main_args) >= 2 THEN main_args[2] ELSE "image.ppm"

\* Path::exists
Exists(path) == main_fs[path] # "absent"

\* Path::is_dir
IsDir(path) == main_fs[path] = "dir"

MainInit ==
    /\ pc = "main"
    /\ RenderIdle
    /\ HitIdle
    /\ MainRestIdle
    /\ main_crate \in Crates
    /\ main_args \in {<<"raytracer">>, <<"raytracer", "out">>}
    /\ main_fs \in [Paths -> PathKinds]
    /\ main_stdin \in {"y", "Y", "n", "\n"}
    /\ main_rendered = FALSE
    /\ main_exit = None

\* 2_the-next-week: if filepath.exists() { prompt; return unless 'y' or 'Y' };
\* src: no test of the path before the render
MainPrompt ==
    /\ pc = "main"
    /\ IF main_crate = "2_the-next-week" /\ Exists(Filepath)
            /\ main_stdin # "y" /\ main_stdin # "Y"
         THEN /\ main_exit' = Some("aborted")
              /\ pc' = "main_exit"
         ELSE /\ pc' = "main_render"
              /\ UNCHANGED main_exit
    /\ UNCHANGED <<main_crate, main_args, main_fs, main_stdin, main_rendered>>
    /\ UNCHANGED <<render_state, hit_state, main_rest>>

\* RayTracer::new(..), the scene, ray_tracer.render_multi(&scene) (src: render)
MainRender ==
    /\ pc = "main_render"
    /\ main_rendered' = TRUE
    /\ pc' = "generate_ppm_image"
    /\ UNCHANGED <<main_crate, main_args, main_fs, main_stdin, main_exit>>
    /\ UNCHANGED <<render_state, hit_state, main_rest>>

\* generate_ppm_image: panic on a directory, else File::create and the writes
MainGenerate ==
    /\ pc = "generate_ppm_image"
    /\ IF Exists(Filepath) /\ IsDir(Filepath)
         THEN /\ main_exit' = Some("panic")
              /\ UNCHANGED main_fs
         ELSE /\ main_fs' = [main_fs EXCEPT ![Filepath] = "file"]
              /\ main_exit' = Some("written")
    /\ pc' = "main_exit"
    /\ UNCHANGED <<main_crate, main_args, main_stdin, main_rendered>>
    /\ UNCHANGED <<render_state, hit_state, main_rest>>

MainNext ==
    \/ MainPrompt
    \/ MainRender
    \/ MainGenerate

MainSpec == MainInit /\ [][MainNext]_vars

\* C19: when the output path is a directory the program fails before any
\* rendering starts: render or render_multi never runs with an output path
\* that is a directory.
NoRenderIntoDirectory ==
    main_rendered => ~IsDir(Filepath)

(***************************************************************************)
(* RayTracer::new: the Dimension and the actual aspect ratio.  An aspect   *)
(* ratio is the fraction <<n, d>> with d a power of two, which f64 holds   *)
(* exactly, so height as f64 * aspect_ratio is the exact product.          *)
(***************************************************************************)
MaxRatio == 5

AspectRatios == {<<n, d>> : n \in 1..MaxRatio, d \in {1, 2, 4, 8}}

\* f64 as u32 of a fraction that is not negative: the fractional part is dropped
AsU32(n, d) == n \div d

\* f64::round of a fraction that is not negative: the nearest integer, halves up
Round(n, d) == (2 * n + d) \div (2 * d)

TracerInit ==
    /\ pc = "new"
    /\ RenderIdle
    /\ HitIdle
    /\ TracerRestIdle
    /\ tracer_params \in [height : 1..MaxHeight, aspect_ratio : AspectRatios]
    /\ tracer_dimension = None
    /\ actual_ratio = None

\* let width = (height as f64 * params.aspect_ratio) as u32;
\* let actual_ratio = width as f64 / height as f64;
\* let dimension = Dimension { width, height };
TracerNew ==
    /\ pc = "new"
    /\ LET height == tracer_params.height
           width == AsU32(height * tracer_params.aspect_ratio[1],
                          tracer_params.aspect_ratio[2])
       IN  /\ tracer_dimension' = Some([width |-> width, height |-> height])
           /\ actual_ratio' = Some(<<width, height>>)
    /\ pc' = "new_done"
    /\ UNCHANGED tracer_params
    /\ UNCHANGED <<render_state, hit_state, tracer_rest>>

TracerNext == TracerNew

TracerSpec == TracerInit /\ [][TracerNext]_vars

\* C20: RayTracer::new sets the image width to round(height * aspect_ratio),
\* the nearest integer, for every height and aspect ratio, and derives the
\* actual aspect ratio from that integer width and the height.
WidthRounded ==
    pc = "new_done" =>
        LET built == Unwrap(tracer_dimension)
        IN  /\ built.height = tracer_params.height
            /\ built.width = Round(tracer_params.height * tracer_params.aspect_ratio[1],
                                   tracer_params.aspect_ratio[2])
            /\ actual_ratio = Some(<<built.width, built.height>>)

(***************************************************************************)
(* BvhNode::new and BvhNode::split, call by call: split_stack holds the    *)
(* calls of split under way, each with the objects it was given, how far   *)
(* it has come and what its left call returned.                            *)
(***************************************************************************)
MaxPrims == 4

\* calls of split nested deeper than this overflow the stack
MaxStack == 4

BuildPrims == {SphereNew(c, 1, Lambertian) : c \in {<<0, 0, 0>>, <<2, 0, 0>>, <<0, 3, 0>>}}

BuildLists == UNION {[1..n -> BuildPrims] : n \in 0..MaxPrims}

SplitFrame(objs) == [objects |-> objs, stage |-> "enter", left_objects |-> None]

\* if objects.len() == 1 { return (objects.pop(), None) }
SplitOne(objs) == <<Some(objs[1]), None>>

\* a variant whose second pop returns the object of the first again
SplitTwoSame(objs) == <<Some(objs[2]), Some(objs[2])>>

\* if objects.len() == 2 { return (objects.pop(), objects.pop()) }
SplitTwo(objs) == <<Some(objs[2]), Some(objs[1])>>

\* a variant that rounds the middle up
SplitMidUp(objs) == (Len(objs) + 1) \div 2

\* let mid = objects.len() / 2
SplitMid(objs) == Len(objs) \div 2

\* objects.drain(..mid)
DrainTo(objs, mid) == SubSeq(objs, 1, mid)

\* objects.drain(..), after drain(..mid)
DrainRest(objs, mid) == SubSeq(objs, mid + 1, Len(objs))

\* a variant that gives a node the box of its left child alone
BvhNodeOfLeftBox(pair) ==
    [kind |-> "BvhNode", left |-> pair[1], right |-> pair[2], bbox |-> BoxOf(pair[1])]

\* Self { left: pair.0, right: pair.1, bbox: combine_bbox(&pair) }
BvhNodeOf(pair) == BvhNode(pair[1], pair[2])

BuildInit ==
    /\ pc = "bvh_build"
    /\ RenderIdle
    /\ HitIdle
    /\ BuildRestIdle
    /\ prims \in BuildLists
    /\ build_axis = 0
    /\ split_stack = <<>>
    /\ split_ret = None
    /\ built_node = None

\* BvhNode::new: the axis is drawn, the objects are sorted, split is called
BvhNodeNewSort ==
    /\ pc = "bvh_build"
    /\ \E axis \in Axes :
         /\ build_axis' = axis
         /\ split_stack' = <<SplitFrame(SortBy(prims, axis))>>
    /\ pc' = "split"
    /\ UNCHANGED <<prims, split_ret, built_node>>
    /\ UNCHANGED <<render_state, hit_state, build_rest>>

\* split: one object or two, returned as they are popped
SplitBase ==
    /\ pc = "split"
    /\ LET top == split_stack[Len(split_stack)]
       IN  /\ Len(top.objects) \in {1, 2}
           /\ split_ret' = Some(IF Len(top.objects) = 1 THEN SplitOne(top.objects)
                                ELSE SplitTwo(top.objects))
    /\ split_stack' = SubSeq(split_stack, 1, Len(split_stack) - 1)
    /\ pc' = "split_return"
    /\ UNCHANGED <<prims, build_axis, built_node>>
    /\ UNCHANGED <<render_state, hit_state, build_rest>>

\* split: neither base case; Self::split(objects.drain(..mid).collect())
SplitLeft ==
    /\ pc = "split"
    /\ Len(split_stack) < MaxStack
    /\ LET top == split_stack[Len(split_stack)]
       IN  /\ Len(top.objects) \notin {1, 2}
           /\ split_stack' =
                Append([split_stack EXCEPT ![Len(split_stack)].stage = "left"],
                       SplitFrame(DrainTo(top.objects, SplitMid(top.objects))))
    /\ UNCHANGED <<pc, prims, build_axis, split_ret, built_node>>
    /\ UNCHANGED <<render_state, hit_state, build_rest>>

\* the call of split that has no room left on the stack
SplitOverflow ==
    /\ pc = "split"
    /\ Len(split_stack) >= MaxStack
    /\ Len(split_stack[Len(split_stack)].objects) \notin {1, 2}
    /\ pc' = "stack_overflow"
    /\ UNCHANGED <<prims, build_axis, split_stack, split_ret, built_node>>
    /\ UNCHANGED <<render_state, hit_state, build_rest>>

\* split: the left call returned; Self::split(objects.drain(..).collect())
SplitRight ==
    /\ pc = "split_return"
    /\ split_stack # <<>>
    /\ LET top == split_stack[Len(split_stack)]
       IN  /\ top.stage = "left"
           /\ split_stack' =
                Append([split_stack EXCEPT ![Len(split_stack)].stage = "right",
                                           ![Len(split_stack)].left_objects = split_ret],
                       SplitFrame(DrainRest(top.objects, SplitMid(top.objects))))
    /\ split_ret' = None
    /\ pc' = "split"
    /\ UNCHANGED <<prims, build_axis, built_node>>
    /\ UNCHANGED <<render_state, hit_state, build_rest>>

\* split: the right call returned; the two nodes are boxed and returned
SplitNodes ==
    /\ pc = "split_return"
    /\ split_stack # <<>>
    /\ LET top == split_stack[Len(split_stack)]
       IN  /\ top.stage = "right"
           /\ split_ret' = Some(<<Some(BvhNodeOf(Unwrap(top.left_objects))),
                                  Some(BvhNodeOf(Unwrap(split_ret)))>>)
    /\ split_stack' = SubSeq(split_stack, 1, Len(split_stack) - 1)
    /\ UNCHANGED <<pc, prims, build_axis, built_node>>
    /\ UNCHANGED <<render_state, hit_state, build_rest>>

\* BvhNode::new: split returned (left, right); Self { left, right, bbox }
BvhNodeNewReturn ==
    /\ pc = "split_return"
    /\ split_stack = <<>>
    /\ built_node' = Some(BvhNodeOf(Unwrap(split_ret)))
    /\ pc' = "bvh_built"
    /\ UNCHANGED <<prims, build_axis, split_stack, split_ret>>
    /\ UNCHANGED <<render_state, hit_state, build_rest>>

BuildNext ==
    \/ BvhNodeNewSort
    \/ SplitBase
    \/ SplitLeft
    \/ SplitOverflow
    \/ SplitRight
    \/ SplitNodes
    \/ BvhNodeNewReturn

BuildSpec == BuildInit /\ [][BuildNext]_vars

(***************************************************************************)
(* Properties of the tree built.                                           *)
(***************************************************************************)
\* the primitives at the leaves of a tree, left to right
RECURSIVE LeavesOf(_)
LeavesOf(h) ==
    IF h.kind = "Sphere" THEN <<h>>
    ELSE (IF IsSome(h.left) THEN LeavesOf(Unwrap(h.left)) ELSE <<>>)
         \o (IF IsSome(h.right) THEN LeavesOf(Unwrap(h.right)) ELSE <<>>)

\* the BvhNodes of a tree
RECURSIVE NodesOf(_)
NodesOf(h) ==
    IF h.kind = "Sphere" THEN {}
    ELSE {h} \cup (IF IsSome(h.left) THEN NodesOf(Unwrap(h.left)) ELSE {})
             \cup (IF IsSome(h.right) THEN NodesOf(Unwrap(h.right)) ELSE {})

Occurrences(seq, x) == Cardinality({k \in DOMAIN seq : seq[k] = x})

Built == pc = "bvh_built"

\* the run from the call on the list the model calls step by step agrees with
\* the operator BvhNodeNew
BuildAgrees == Built => Unwrap(built_node) = BvhNodeNew(prims, build_axis)

\* C21: for every non-empty input list the leaves of the tree BvhNode::new
\* built are the input primitives, each as often as the list holds it,
\* whatever axis was drawn and wherever equal keys stand.
BvhLeavesAreInputs ==
    Built =>
        /\ Len(LeavesOf(Unwrap(built_node))) = Len(prims)
        /\ \A x \in BuildPrims :
             Occurrences(LeavesOf(Unwrap(built_node)), x) = Occurrences(prims, x)

\* four primitives, two of them the same sphere and all of the same key on
\* the axis drawn, were built into a tree
BvhLeavesAreInputsWitness ==
    /\ Built
    /\ Len(prims) = 4
    /\ prims[1] = prims[3]
    /\ prims[1] # prims[2]
    /\ build_axis = 2

\* C22: the bbox of every BvhNode is, axis by axis, the least min and the
\* greatest max of its children's boxes, an absent child counting as the empty
\* box; so it encloses the box of every primitive under the node.
BvhBoxIsUnion ==
    Built =>
        \A node \in NodesOf(Unwrap(built_node)) : \A k \in 1..3 :
            LET lmin == IF IsSome(node.left) THEN Unwrap(node.left).bbox[k].min ELSE PosInf
                lmax == IF IsSome(node.left) THEN Unwrap(node.left).bbox[k].max ELSE NegInf
                rmin == IF IsSome(node.right) THEN Unwrap(node.right).bbox[k].min ELSE PosInf
                rmax == IF IsSome(node.right) THEN Unwrap(node.right).bbox[k].max ELSE NegInf
                leaves == LeavesOf(node)
            IN  /\ node.bbox[k].min = (IF lmin <= rmin THEN lmin ELSE rmin)
                /\ node.bbox[k].max = (IF lmax >= rmax THEN lmax ELSE rmax)
                /\ \A j \in DOMAIN leaves :
                     /\ node.bbox[k].min <= leaves[j].bbox[k].min
                     /\ leaves[j].bbox[k].max <= node.bbox[k].max

\* a tree of three primitives: its left node has no right child, and the
\* root's box reaches from -1 to 3 on the x axis
BvhBoxIsUnionWitness ==
    /\ Built
    /\ Len(prims) = 3
    /\ Unwrap(Unwrap(built_node).left).right = None
    /\ Unwrap(built_node).bbox[1] = IntervalNew(-1, 3)

\* C23: a node over three primitives or more has two nodes as children, the
\* left one over the floor(n/2) primitives of the least interval.min on the
\* axis drawn and the right one over the others; a node over one primitive
\* holds it as its only leaf, a node over two holds two leaves.
BvhMedianSplit ==
    Built =>
        \A node \in NodesOf(Unwrap(built_node)) :
            LET n == Len(LeavesOf(node))
            IN  /\ n = 1 => /\ IsSome(node.left)
                            /\ Unwrap(node.left).kind = "Sphere"
                            /\ node.right = None
                /\ n = 2 => /\ IsSome(node.left) /\ IsSome(node.right)
                            /\ Unwrap(node.left).kind = "Sphere"
                            /\ Unwrap(node.right).kind = "Sphere"
                /\ n >= 3 =>
                     /\ IsSome(node.left) /\ IsSome(node.right)
                     /\ Unwrap(node.left).kind = "BvhNode"
                     /\ Unwrap(node.right).kind = "BvhNode"
                     /\ LET lower == LeavesOf(Unwrap(node.left))
                            upper == LeavesOf(Unwrap(node.right))
                        IN  /\ Len(lower) = n \div 2
                            /\ \A i \in DOMAIN lower : \A j \in DOMAIN upper :
                                 SortKey(lower[i], build_axis) <= SortKey(upper[j], build_axis)

\* three primitives given with the greatest x first: the one of the least x
\* is alone on the left
BvhMedianSplitWitness ==
    /\ Built
    /\ Len(prims) = 3
    /\ build_axis = 0
    /\ prims[1].center = <<2, 0, 0>>
    /\ prims[3].center = <<0, 0, 0>>
    /\ LeavesOf(Unwrap(Unwrap(built_node).left)) = <<prims[3]>>
    /\ Len(LeavesOf(Unwrap(Unwrap(built_node).right))) = 2

\* C28: BvhNode::new terminates for every finite list of primitives, the
\* empty list included: every call of split made by split gets fewer objects
\* than its caller has, so the recursion reaches a base case.
SplitReachesBase ==
    /\ pc # "stack_overflow"
    /\ \A k \in 2..Len(split_stack) :
         Len(split_stack[k].objects) < Len(split_stack[k - 1].objects)

(***************************************************************************)
(* Material::scatter applied to one material, incident ray, hit record and *)
(* set of random draws.  The hit record is any record, whether or not      *)
(* HitRecord::new would have built it for the ray.                         *)
(***************************************************************************)
ScatterMaterials ==
    {LambertianNew(Albedo), MetalNew(Albedo, 0), MetalNew(Albedo, 1), DielectricNew(1)}

UnitAxes == {<<1, 0, 0>>, <<-1, 0, 0>>, <<0, 1, 0>>, <<0, -1, 0>>, <<0, 0, 1>>, <<0, 0, -1>>}

\* incident rays: unit directions and one of length 2
ScatterRays ==
    {[origin |-> <<0, 0, -3>>, direction |-> d, time |-> time] :
        d \in {<<0, 0, 1>>, <<0, 1, 0>>, <<0, 0, 2>>}, time \in Times}

ScatterRecords ==
    {[point |-> <<0, 0, 0>>, normal |-> n, tex |-> Vec2Default, t_value |-> 3,
      front_face |-> f] : n \in UnitAxes, f \in BOOLEAN}

\* random_unit_vector(), random_in_unit_sphere() and get_random_canonical():
\* the only whole vector inside the unit sphere is the zero vector
ScatterDraws ==
    {[unit_vector |-> u, in_unit_sphere |-> <<0, 0, 0>>, canonical |-> c] :
        u \in UnitAxes, c \in {0, 1}}

ScatterInit ==
    /\ pc = "scatter"
    /\ RenderIdle
    /\ HitIdle
    /\ ScatterRestIdle
    /\ scatter_input \in [material : ScatterMaterials, ray : ScatterRays,
                          rec : ScatterRecords, draw : ScatterDraws]
    /\ scatter_ret = None

\* material.scatter(ray, hit_record)
ScatterStep ==
    /\ pc = "scatter"
    /\ scatter_ret' = Some(Scatter(scatter_input.material, scatter_input.ray,
                                   scatter_input.rec, scatter_input.draw))
    /\ pc' = "scatter_done"
    /\ UNCHANGED scatter_input
    /\ UNCHANGED <<render_state, hit_state, scatter_rest>>

ScatterNext == ScatterStep

ScatterSpec == ScatterInit /\ [][ScatterNext]_vars

\* v - 2 (v . n) n for the unit vector v along the incident ray, fuzz added
FuzzedReflection ==
    LET d == scatter_input.ray.direction
        n == scatter_input.rec.normal
        length == IF d[1] + d[2] + d[3] < 0 THEN -(d[1] + d[2] + d[3]) ELSE d[1] + d[2] + d[3]
        v == [k \in 1..3 |-> d[k] \div length]
        v_n == v[1] * n[1] + v[2] * n[2] + v[3] * n[3]
    IN  [k \in 1..3 |-> v[k] - 2 * v_n * n[k]
                        + scatter_input.material.fuzz * scatter_input.draw.in_unit_sphere[k]]

\* C24: Lambertian::scatter and Dielectric::scatter return a scattered ray
\* for every incident ray and hit record; Metal::scatter returns None exactly
\* when the fuzzed reflected direction has reflected . normal <= 0, and
\* otherwise the reflected ray with the albedo as attenuation.
ScatterOrAbsorb ==
    pc = "scatter_done" =>
        LET m == scatter_input.material
            n == scatter_input.rec.normal
            result == Unwrap(scatter_ret)
        IN  /\ m.kind \in {"Lambertian", "Dielectric"} => IsSome(result)
            /\ m.kind = "Metal" =>
                 LET reflected == FuzzedReflection
                     dot == reflected[1] * n[1] + reflected[2] * n[2] + reflected[3] * n[3]
                 IN  /\ result = None <=> dot <= 0
                     /\ IsSome(result) =>
                          /\ Unwrap(result).ray.direction = reflected
                          /\ Unwrap(result).attenuation = m.albedo

\* Metal absorbed a ray that came along the record's normal
ScatterOrAbsorbWitness ==
    /\ pc = "scatter_done"
    /\ scatter_input.material.kind = "Metal"
    /\ scatter_input.ray.direction = <<0, 0, 2>>
    /\ scatter_input.rec.normal = <<0, 0, 1>>
    /\ Unwrap(scatter_ret) = None

(***************************************************************************)
(* The progress lines of a single-thread render, on images large enough    *)
(* for the interval of 512 updates to pass.                                *)
(***************************************************************************)
ProgressDimensions ==
    {[width |-> 32, height |-> 33], [width |-> 512, height |-> 1],
     [width |-> 1, height |-> 513], [width |-> 64, height |-> 8],
     [width |-> 2, height |-> 3], [width |-> 3, height |-> 0]}

\* the state at the call of render, before ProgressTrackerWrapper::new
ProgressInit ==
    /\ dimension \in ProgressDimensions
    /\ concurrency_level = 1
    /\ pc = "render"
    /\ render_row = 0
    /\ render_col = 0
    /\ render_pixels = <<>>
    /\ single = None
    /\ spawn_i = 0
    /\ workers = [i \in {0} |-> Unspawned]
    /\ channel = <<>>
    /\ pixels = <<>>
    /\ completed_threads = 0
    /\ multi = None
    /\ sent = <<>>
    /\ written = <<>>
    /\ rows = [i \in {0} |-> <<>>]
    /\ progress = <<>>
    /\ HitIdle
    /\ UnitIdle

ProgressNext ==
    \/ RenderPush
    \/ RenderReturn

ProgressSpec == ProgressInit /\ [][ProgressNext]_vars

\* C25: in a single-thread render the k-th pixel gives the wrapper the count
\* k, and a line is written exactly for the counts that are a multiple of 512
\* or equal width * height: the counts written increase, fewer than 512
\* updates pass without a line, and the line of count = max, the only one
\* that ends the line, is written once, at the last pixel.
ProgressEmissions ==
    LET done == Len(render_pixels)
        max == dimension.width * dimension.height
    IN  /\ \A k \in 1..done :
             (k % 512 = 0 \/ k = max) <=> \E j \in DOMAIN progress : progress[j].count = k
        /\ \A j \in DOMAIN progress :
             /\ progress[j].count \in 1..done
             /\ progress[j].max = max
             /\ progress[j].newline <=> progress[j].count = max
             /\ \A i \in 1..(j - 1) : progress[i].count < progress[j].count
        /\ done - (IF progress = <<>> THEN 0 ELSE progress[Len(progress)].count) < 512
        /\ IsSome(single) =>
             (max > 0 => /\ progress # <<>>
                         /\ progress[Len(progress)].count = max)

\* render returned an image of 32 x 33 pixels: lines at 512, 1024 and 1056
ProgressEmissionsWitness ==
    /\ IsSome(single)
    /\ dimension = [width |-> 32, height |-> 33]
    /\ Len(progress) = 3
    /\ progress[1].count = 512
    /\ progress[2].count = 1024
    /\ progress[3].count = 1056
    /\ progress[3].newline

(***************************************************************************)
(* The order of the workers and the aggregator in render_multi.            *)
(***************************************************************************)
WorkersRunning == \E i \in DOMAIN workers : workers[i].pc # "done"

MessagesOf(ch, tag) == Cardinality({k \in DOMAIN ch : ch[k][1] = tag})

\* C26: the aggregator receives its first message only after every worker
\* has sent its sentinel and ended: while a worker is running nothing has
\* been taken from the channel and no pixel is written, and when the receive
\* loop starts the channel holds the width * height colors and the W
\* sentinels all at once.
JoinBeforeRecv ==
    /\ WorkersRunning =>
         /\ pc \notin {"recv", "done", "panic"}
         /\ channel = [k \in DOMAIN sent |-> sent[k].msg]
         /\ pixels = <<>>
         /\ \A k \in DOMAIN written : written[k] = 0
         /\ completed_threads = 0
    /\ (pc = "recv" /\ Len(channel) = Len(sent)) =>
         /\ MessagesOf(channel, "Color") = dimension.width * dimension.height
         /\ MessagesOf(channel, "None") = concurrency_level
    /\ pc = "recv" => Len(sent) = dimension.width * dimension.height + concurrency_level

\* three workers have ended and the six colors and three sentinels of a
\* 2 x 3 image wait in the channel, none received yet
JoinBeforeRecvWitness ==
    /\ pc = "recv"
    /\ concurrency_level = 3
    /\ dimension = [width |-> 2, height |-> 3]
    /\ Len(channel) = 9
    /\ completed_threads = 0
    /\ \A k \in DOMAIN written : written[k] = 0

\* the colors worker i has sent
ColorsSentBy(i) ==
    Cardinality({k \in DOMAIN sent : sent[k].from = i /\ sent[k].msg[1] = "Color"})

\* worker i has rendered every pixel of every row of its own
RowsFinished(i) ==
    ColorsSentBy(i) = NumSteps(dimension.height, concurrency_level, i) * dimension.width

\* C30: in render_multi, whenever the progress reporter has written its
\* final line (count = max, 100%), every worker has finished all of its rows.
FinalLineAfterAllRows ==
    (\E j \in DOMAIN progress :
        progress[j].of = "render_multi" /\ progress[j].newline)
    => \A i \in DOMAIN workers : RowsFinished(i)

(***************************************************************************)
(* The index of a pixel in a worker of render_multi, in the unsigned       *)
(* arithmetic of the code.  The model's u32 has U32Bits bits instead of 32 *)
(* and its usize twice as many, so that a buffer of width * height pixels  *)
(* exists for every u32 width and height, as with 32 and 64 bits.          *)
(***************************************************************************)
U32Bits == 4

U32Modulus == 2 ^ U32Bits

\* x as u32
WrapU32(x) == x % U32Modulus

\* widths and heights: small ones, two about the square root of the modulus
\* and the greatest u32
IndexSides ==
    {1, 2, 2 ^ (U32Bits - 2), 2 ^ (U32Bits - 2) + 1, U32Modulus - 1}

IndexInputs ==
    {in \in [width : IndexSides, height : IndexSides, level : 1..MaxWorkers,
             i : 0..(MaxWorkers - 1), count : 0..(U32Modulus - 1),
             col : 0..(U32Modulus - 1)] :
        /\ in.i < in.level
        /\ in.count < NumSteps(in.height, in.level, in.i)
        /\ in.col < in.width}

IndexInit ==
    /\ pc = "index"
    /\ RenderIdle
    /\ HitIdle
    /\ IndexRestIdle
    /\ index_input \in IndexInputs
    /\ index_row = None
    /\ index_ret = None

\* let row = (count as usize * concurrency_level + i) as u32;
\* let index = (row * self.dimension.width + col) as usize;
\* u32 arithmetic that overflows wraps in a release build and panics in a
\* debug build
IndexStep ==
    /\ pc = "index"
    /\ LET in == index_input
           row == WrapU32(WorkerRowOf(in.count, in.level, in.i))
           index == PixelIndex(row, in.width, in.col)
       IN  /\ index_row' = Some(row)
           /\ IF row * in.width < U32Modulus /\ index < U32Modulus
                THEN /\ index_ret' = Some(index)
                     /\ pc' = "index_done"
                ELSE \/ /\ index_ret' = Some(WrapU32(index))
                        /\ pc' = "index_done"
                     \/ /\ index_ret' = None
                        /\ pc' = "index_panic"
    /\ UNCHANGED index_input
    /\ UNCHANGED <<render_state, hit_state, index_rest>>

IndexNext == IndexStep

IndexSpec == IndexInit /\ [][IndexNext]_vars

\* C27: for every image whose pixels the buffer can hold, the index a worker
\* computes for pixel (col, row) is row * width + col as an integer, with
\* row = count * W + i: the unsigned computation never wraps or overflows.
IndexNeverWraps ==
    pc # "index" =>
        /\ pc = "index_done"
        /\ index_row = Some(index_input.count * index_input.level + index_input.i)
        /\ index_ret = Some(Unwrap(index_row) * index_input.width + index_input.col)

(***************************************************************************)
(* The bounding boxes of the spheres, in HitSpec: objects holds spheres of *)
(* radius 1 and -1, still and moving.                                      *)
(***************************************************************************)
\* times 0.0, 0.5 and 1.0, in halves
ShutterTimes == {0, 1, 2}

\* the interval [c - |R|, c + |R|] of sphere s on axis k at a time
SphereExtent(s, k, time) ==
    IntervalNew(FSub(SphereCenter(s, time)[k], FAbs(s.radius)),
                FAdd(SphereCenter(s, time)[k], FAbs(s.radius)))

\* interval outer contains interval inner
IntervalEncloses(outer, inner) ==
    FLe(outer.min, inner.min) /\ FLe(inner.max, outer.max)

\* C29: for every sphere built by Sphere::new or Sphere::new_moving, of
\* positive or negative radius R, each axis interval of its bounding box has
\* min <= max and contains [c - |R|, c + |R|] for the center c at every time
\* in [0, 1], and the box of the list the sphere was added to encloses it too.
SphereBoxEncloses ==
    \A n \in DOMAIN objects : \A k \in 1..3 : \A time \in ShutterTimes :
        /\ FLe(objects[n].bbox[k].min, objects[n].bbox[k].max)
        /\ IntervalEncloses(objects[n].bbox[k], SphereExtent(objects[n], k, time))
        /\ IntervalEncloses(HittableListOf(objects).bbox[k],
                            SphereExtent(objects[n], k, time))


====
